---- MODULE Spec2Model ----
(***************************************************************************)
(* UrChats: the encrypted container codec (flightcodev2CLI.CryptoService), *)
(* the message cipher and fallback search (chat.ChatManager), the rotation *)
(* engine (key_rotate.KeyRotationManager) and the application session      *)
(* around them (main.Application, login.LoginManager,                      *)
(* db_connect.DatabaseManager).                                            *)
(*                                                                         *)
(* Bytes are naturals 0..255 and byte strings are sequences of them.       *)
(* Library primitives (Argon2id, AES-GCM, NaCl Box, json, base64) are      *)
(* modelled by small deterministic stand-ins that keep their algebra:      *)
(* what the repository's own code does with them is translated line by     *)
(* line.                                                                   *)
(***************************************************************************)
EXTENDS Integers, Sequences, FiniteSets, TLC

VARIABLES
    \* ---- codec harness ----
    c_pc,         \* "idle" | "input" | "encrypted" | "decrypted"
    c_data,       \* plaintext handed to encrypt_data
    c_password,   \* password handed to encrypt_data
    c_container,  \* bytes returned by encrypt_data
    c_result,     \* outcome of decrypt_data: [ok, data] or [ok, err]
    c_draw,       \* what encrypt_data drew: salt, nonce and timestamp
    c_damage,     \* what happened to the container before decrypt_data read it
    \* ---- MessageStorage and its file ----
    s_pc,         \* "closed" | "open": a MessageStorage object exists
    s_messages,   \* MessageStorage.messages
    s_file,       \* messages_<username>.hee: NoFile or its bytes
    s_ret,        \* what the last MessageStorage call returned
    s_password,   \* MessageStorage.password
    \* ---- one call of ChatManager.receive_messages, statement by statement ----
    r_pc,         \* "idle" | "current" | "old" | "done"
    r_encrypted_messages, \* the rows get_messages returned to the call
    r_decrypted_messages, \* the list the call is building
    r_msg,        \* position of the for loop in encrypted_messages
    r_key,        \* position of _try_decrypt_with_old_keys in old_keys
    tried,        \* history: every Box(...).decrypt the call has made, in order
    \* ---- chat_interface ----
    displayed_message_ids, \* the set of that name, local to one chat_interface call
    displayed_log,\* history: what get_new_messages returned for display in this chat
    \* ---- two threads inside MessageStorage.add_message ----
    t_pc,         \* thread -> "idle" | "appended" | "dumped" | "opened" | "returned"
    t_data,       \* thread -> the encrypted_data it is about to write
    \* ---- the file-encryption command (flightcodev2CLI.main) ----
    fs,           \* path -> NoFile or the file's bytes
    cli_ret,      \* what the last command was given and returned
    \* ---- the world outside the process ----
    profile_file, \* user_profile.json.he: NoFile or its bytes
    directory,    \* table users_public_keys: username -> public_key or NoRow
    relay,        \* table message_log: rows in insertion order
    sealed_log,   \* history: for each relay row, what was sealed, with which keys,
                  \* and how many PrivateKey.generate() draws alice had made
    retired_seen, \* history: the retired list last held by alice's loaded record
    current_seen, \* history: the current namespace keypair her record last held
    now,          \* the clock read by get_timestamp()
    \* ---- the running process (main.Application and its managers) ----
    pc,           \* "start" | "loggedin" | "menu" | "chat"
    user_data,    \* the dict made by login/registration, shared by all managers
    app_user_data,\* Application.user_data: None, SameObject, or a reloaded dict
    user_password,\* Application.user_password
    supabase,     \* DatabaseManager.supabase is a client (TRUE) or None (FALSE)
    chat_identity_private_key, \* ChatManager.identity_private_key
    chat_partner, \* the users_public_keys row chosen in start_chat
    keygen,       \* number of PrivateKey.generate() draws made so far
    ret           \* what the last manager call returned

storageVars == <<s_pc, s_messages, s_file, s_ret, s_password>>

receiveVars == <<r_pc, r_encrypted_messages, r_decrypted_messages, r_msg,
                 r_key, tried>>

chatVars == <<displayed_message_ids, displayed_log>>

threadVars == <<t_pc, t_data>>

cliVars == <<fs, cli_ret>>

extraVars == <<receiveVars, chatVars, threadVars, cliVars>>

codecVars == <<c_pc, c_data, c_password, c_container, c_result, c_draw, c_damage,
               storageVars, extraVars>>

worldVars == <<profile_file, directory, relay, sealed_log, retired_seen,
               current_seen, now>>

processVars == <<pc, user_data, app_user_data, user_password, supabase,
                 chat_identity_private_key, chat_partner, keygen, ret>>

vars == <<codecVars, worldVars, processVars>>

(***************************************************************************)
(* Generic helpers                                                         *)
(***************************************************************************)
Min(a, b) == IF a < b THEN a ELSE b

Max(a, b) == IF a < b THEN b ELSE a

\* sum(s[a..b]), halving the range.
RECURSIVE SumRange(_, _, _)
SumRange(s, a, b) ==
    IF a > b THEN 0
    ELSE IF a = b THEN s[a]
    ELSE LET m == (a + b) \div 2
         IN  SumRange(s, a, m) + SumRange(s, m + 1, b)

Sum(s) == SumRange(s, 1, Len(s))

\* Python slice s[a:b] (0-based, end exclusive, clamped to the sequence).
Slice(s, a, b) == SubSeq(s, Min(a, Len(s)) + 1, Min(b, Len(s)))

\* Python slice s[a:].
SliceFrom(s, a) == SubSeq(s, Min(a, Len(s)) + 1, Len(s))

Raise(e) == [ok |-> FALSE, err |-> e]

Return(v) == [ok |-> TRUE, data |-> v]

(***************************************************************************)
(* str.encode('utf-8') / bytes.decode('utf-8') for code points below 2048: *)
(* one byte below 128, two bytes (110xxxxx 10xxxxxx) above.                *)
(***************************************************************************)
\* The bytes of the code points s[a..b], halving the range.
RECURSIVE Utf8EncodeRange(_, _, _)
Utf8EncodeRange(s, a, b) ==
    IF a > b THEN <<>>
    ELSE IF a = b
         THEN IF s[a] < 128 THEN <<s[a]>>
              ELSE <<192 + (s[a] \div 64), 128 + (s[a] % 64)>>
    ELSE LET m == (a + b) \div 2
         IN  Utf8EncodeRange(s, a, m) \o Utf8EncodeRange(s, m + 1, b)

Utf8Encode(s) == Utf8EncodeRange(s, 1, Len(s))

Utf8Continuation(byte) == byte >= 128 /\ byte < 192

Utf8Lead2(byte) == byte >= 194 /\ byte < 224

\* Every byte is an ASCII byte, the lead of a two-byte form followed by a
\* continuation byte, or a continuation byte that follows such a lead.
Utf8Valid(b) ==
    \A i \in 1..Len(b) :
        \/ b[i] < 128
        \/ Utf8Lead2(b[i]) /\ i < Len(b) /\ Utf8Continuation(b[i + 1])
        \/ Utf8Continuation(b[i]) /\ i > 1 /\ Utf8Lead2(b[i - 1])

\* The code points that start in the bytes b[a..c] of a valid string.
RECURSIVE Utf8DecodeRange(_, _, _)
Utf8DecodeRange(b, a, c) ==
    IF a > c THEN <<>>
    ELSE IF a = c
         THEN IF b[a] < 128 THEN <<b[a]>>
              ELSE IF Utf8Lead2(b[a])
                   THEN <<(b[a] - 192) * 64 + (b[a + 1] - 128)>>
                   ELSE <<>>
    ELSE LET m == (a + c) \div 2
         IN  Utf8DecodeRange(b, a, m) \o Utf8DecodeRange(b, m + 1, c)

\* The decoded code points, or <<-1>> when the bytes are not valid UTF-8.
Utf8Decode(b) == IF Utf8Valid(b) THEN Utf8DecodeRange(b, 1, Len(b)) ELSE <<-1>>

(***************************************************************************)
(* CryptoService (src/flightcodev2CLI.py)                                  *)
(***************************************************************************)
SALT_SIZE == 16

NONCE_SIZE == 12

TAG_SIZE == 16

KEY_SIZE == 32

\* APP_VERSION banner that opens the associated data: "FlightCode v2.0 - ",
\* shortened to the bytes of "FCv2-".
MetadataPrefix == <<70, 67, 118, 50, 45>>

\* argon2.low_level.hash_secret_raw: a deterministic function of the password
\* bytes and the salt that yields key_size bytes (stand-in mixing function,
\* injective on the passwords and salts drawn here).
derive_key(password, salt) ==
    LET secret == Utf8Encode(password)
        h == 31 * Sum(secret) + 17 * Sum(salt) + 7 * Len(secret)
    IN  [i \in 1..KEY_SIZE |-> (h + i) % 256]

\* AES in counter mode: byte i of the keystream for (key, nonce).
GcmKeystream(key, nonce, i) == (Sum(key) + 3 * Sum(nonce) + 5 * i) % 256

\* A tag that does not authenticate the associated data.
GcmTagIgnoringAad(key, nonce, aad, ciphertext) ==
    LET h == Sum(key) + 3 * Sum(nonce) + 7 * Sum(ciphertext)
             + 13 * Len(ciphertext)
    IN  [j \in 1..TAG_SIZE |-> (h + j) % 256]

\* GHASH stand-in: a TAG_SIZE-byte checksum of key, nonce, associated data and
\* ciphertext that changes when any one byte of them changes.
GcmTag(key, nonce, aad, ciphertext) ==
    LET h == Sum(key) + 3 * Sum(nonce) + 5 * Sum(aad) + 7 * Sum(ciphertext)
             + 11 * Len(aad) + 13 * Len(ciphertext)
    IN  [j \in 1..TAG_SIZE |-> (h + j) % 256]

GcmEncryptUpdate(key, nonce, data) ==
    LET block0 == GcmKeystream(key, nonce, 0)
    IN  [i \in 1..Len(data) |-> (data[i] + block0 + 5 * i) % 256]

GcmDecryptUpdate(key, nonce, ciphertext) ==
    LET block0 == GcmKeystream(key, nonce, 0)
    IN  [i \in 1..Len(ciphertext) |->
            (ciphertext[i] + 256 - ((block0 + 5 * i) % 256)) % 256]

\* The length prefix written low byte first: what byteorder='little' would store.
ToBytes2LittleEndian(n) == <<n % 256, (n \div 256) % 256>>

\* int.to_bytes(2, byteorder='big')
ToBytes2(n) == <<(n \div 256) % 256, n % 256>>

\* int.from_bytes(b, byteorder='big') of a two-byte string
FromBytes2(b) == b[1] * 256 + b[2]

\* encrypt_data appending the tag after the ciphertext instead of storing it
\* among the fixed fields.
encrypt_data_tag_last(data, password, salt, nonce, stamp) ==
    LET key == derive_key(password, salt)
        metadata == MetadataPrefix \o stamp
        ciphertext == GcmEncryptUpdate(key, nonce, data)
        tag == GcmTag(key, nonce, metadata, ciphertext)
        metadata_length == ToBytes2(Len(metadata))
    IN  salt \o nonce \o metadata_length \o metadata \o ciphertext \o tag

\* encrypt_data(data, password); salt and nonce are the two os.urandom draws,
\* stamp the bytes of datetime.now().isoformat().
encrypt_data(data, password, salt, nonce, stamp) ==
    LET key == derive_key(password, salt)
        metadata == MetadataPrefix \o stamp
        ciphertext == GcmEncryptUpdate(key, nonce, data)
        tag == GcmTag(key, nonce, metadata, ciphertext)
        metadata_length == ToBytes2(Len(metadata))
    IN  salt \o nonce \o tag \o metadata_length \o metadata \o ciphertext

\* decrypt_data, lines 159-182 ("Extract components"): the slices taken from
\* encrypted_data.  A Python slice past the end is short or empty, not an error.
ExtractComponents(encrypted_data) ==
    LET metadata_length_bytes ==
            Slice(encrypted_data, SALT_SIZE + NONCE_SIZE + TAG_SIZE,
                  SALT_SIZE + NONCE_SIZE + TAG_SIZE + 2)
        metadata_length == FromBytes2(metadata_length_bytes)
    IN  [salt |-> Slice(encrypted_data, 0, SALT_SIZE),
         nonce |-> Slice(encrypted_data, SALT_SIZE, SALT_SIZE + NONCE_SIZE),
         tag |-> Slice(encrypted_data, SALT_SIZE + NONCE_SIZE,
                       SALT_SIZE + NONCE_SIZE + TAG_SIZE),
         metadata_length |-> metadata_length,
         metadata |->
            Slice(encrypted_data, SALT_SIZE + NONCE_SIZE + TAG_SIZE + 2,
                  SALT_SIZE + NONCE_SIZE + TAG_SIZE + 2 + metadata_length),
         ciphertext |->
            SliceFrom(encrypted_data,
                      SALT_SIZE + NONCE_SIZE + TAG_SIZE + 2 + metadata_length)]

\* decrypt_data(encrypted_data, password): Return(plaintext), Raise("ValueError")
\* or Raise("InvalidTag").
decrypt_data(encrypted_data, password) ==
    IF Len(encrypted_data) < SALT_SIZE + NONCE_SIZE + TAG_SIZE + 2
    THEN Raise("ValueError")
    ELSE
    LET parts == ExtractComponents(encrypted_data)
        key == derive_key(password, parts.salt)
    IN  IF GcmTag(key, parts.nonce, parts.metadata, parts.ciphertext) = parts.tag
        THEN Return(GcmDecryptUpdate(key, parts.nonce, parts.ciphertext))
        ELSE Raise("InvalidTag")

(***************************************************************************)
(* nacl.encoding.Base64Encoder: three bytes become four 6-bit characters;  *)
(* character 64 stands for the padding '='.                                *)
(***************************************************************************)
RECURSIVE Base64Encode(_)
Base64Encode(b) ==
    IF b = <<>> THEN <<>>
    ELSE LET b1 == b[1]
             b2 == IF Len(b) >= 2 THEN b[2] ELSE 0
             b3 == IF Len(b) >= 3 THEN b[3] ELSE 0
             n == b1 * 65536 + b2 * 256 + b3
             c3 == IF Len(b) >= 2 THEN (n \div 64) % 64 ELSE 64
             c4 == IF Len(b) >= 3 THEN n % 64 ELSE 64
         IN  <<n \div 262144, (n \div 4096) % 64, c3, c4>>
             \o Base64Encode(SliceFrom(b, 3))

\* The decoded bytes, or <<-1>> when the string is not valid base64.
RECURSIVE Base64Decode(_)
Base64Decode(s) ==
    IF s = <<>> THEN <<>>
    ELSE IF Len(s) < 4 \/ s[1] > 63 \/ s[2] > 63 THEN <<-1>>
    ELSE LET last == Len(s) = 4
             pad3 == s[3] = 64
             pad4 == s[4] = 64
             c3 == IF pad3 THEN 0 ELSE s[3]
             c4 == IF pad4 THEN 0 ELSE s[4]
             n == s[1] * 262144 + s[2] * 4096 + c3 * 64 + c4
             bytes == IF pad3 THEN <<n \div 65536>>
                      ELSE IF pad4 THEN <<n \div 65536, (n \div 256) % 256>>
                      ELSE <<n \div 65536, (n \div 256) % 256, n % 256>>
             rest == Base64Decode(SliceFrom(s, 4))
         IN  IF \/ s[3] > 64 \/ s[4] > 64
                \/ (pad3 /\ ~pad4)
                \/ ((pad3 \/ pad4) /\ ~last)
                \/ rest = <<-1>>
             THEN <<-1>>
             ELSE bytes \o rest

(***************************************************************************)
(* nacl.public: PrivateKey, PublicKey, Box.  A raw key is one byte here    *)
(* (32 in the library): private keys are 1..99, the public key of private  *)
(* key k is k + 100.                                                       *)
(***************************************************************************)
\* PrivateKey.generate(): the n-th draw of the key generator.
PrivateKeyGenerate(n) == <<n>>

\* private_key.public_key
PublicKeyOf(private_key) == <<private_key[1] + 100>>

\* PrivateKey(raw) / PublicKey(raw) accept exactly one key's worth of bytes.
IsPrivateKey(raw) == Len(raw) = 1 /\ raw[1] >= 1 /\ raw[1] < 100

IsPublicKey(raw) == Len(raw) = 1 /\ raw[1] > 100 /\ raw[1] < 200

\* Box(private_key, public_key): the Diffie-Hellman shared key, the same for
\* (a.private, b.public) and (b.private, a.public).
Box(private_key, public_key) ==
    LET a == private_key[1]
        b == public_key[1] - 100
    IN  Min(a, b) * 100 + Max(a, b)

BoxKeystream(box, nonce, i) == (box + 3 * nonce + 5 * i) % 256

\* Poly1305 stand-in: two bytes that change with the shared key, the nonce
\* and any one byte of the ciphertext.
BoxMac(box, nonce, ct) ==
    <<(box \div 256) % 256, (box + 3 * nonce + 7 * Sum(ct) + 11 * Len(ct)) % 256>>

\* box.encrypt(plaintext, nonce): nonce, then authenticator, then ciphertext.
BoxEncrypt(box, plaintext, nonce) ==
    LET ct == [i \in 1..Len(plaintext) |->
                  (plaintext[i] + BoxKeystream(box, nonce, i)) % 256]
    IN  <<nonce>> \o BoxMac(box, nonce, ct) \o ct

\* box.decrypt(encrypted): Return(plaintext) or Raise("CryptoError").
BoxDecrypt(box, encrypted) ==
    IF Len(encrypted) < 3 THEN Raise("CryptoError")
    ELSE LET nonce == encrypted[1]
             mac == Slice(encrypted, 1, 3)
             ct == SliceFrom(encrypted, 3)
         IN  IF BoxMac(box, nonce, ct) = mac
             THEN Return([i \in 1..Len(ct) |->
                            (ct[i] + 256 - BoxKeystream(box, nonce, i)) % 256])
             ELSE Raise("CryptoError")

(***************************************************************************)
(* Values of the session                                                   *)
(***************************************************************************)
None == [tag |-> "None"]

\* The profile path: no file, or a file holding bytes.
NoFile == <<>>

File(bytes) == <<bytes>>

\* No row for a username in users_public_keys.
NoRow == <<>>

\* No password held / no key object built.
Unset == <<>>

\* Application.user_data still names the dict the managers share.
SameObject == [tag |-> "SameObject"]

\* No manager call has returned since the last menu step.
NoReturn == [op |-> "none"]

Usernames == {"alice", "bob"}

\* os.getenv("SUPABASE_URL"), the namespace identifier.
SUPABASE_URL == "ns1"

UrlOrder == <<"ns1">>

UserCode(u) == IF u = "alice" THEN 1 ELSE 2

UserOfCode(c) == IF c = 1 THEN "alice" ELSE "bob"

UrlCode(u) == CHOOSE i \in 1..Len(UrlOrder) : UrlOrder[i] = u

\* utils.get_timestamp(): "%Y-%m-%d %H:%M:%S", here "<day> <second>".
get_timestamp(t) == <<48 + t.day, 32, 48 + t.sec>>

\* datetime.now().isoformat(), here "<day>T<second>".
IsoFormat(t) == <<48 + t.day, 84, 48 + t.sec>>

\* The dict stored for a namespace keypair.
KeypairEntry(private_key, created_at) ==
    [private_key |-> Base64Encode(private_key),
     public_key  |-> Base64Encode(PublicKeyOf(private_key)),
     created_at  |-> created_at]

(***************************************************************************)
(* json.dumps / json.loads of the user profile: a length-prefixed          *)
(* serialisation to characters and its parser.                             *)
(***************************************************************************)
JsonString(str) == <<Len(str)>> \o str

JsonKeypair(kp) ==
    IF kp = None THEN <<0>>
    ELSE <<1>> \o JsonString(kp.private_key) \o JsonString(kp.public_key)
              \o JsonString(kp.created_at)

RECURSIVE JsonKeypairs(_)
JsonKeypairs(kps) ==
    IF kps = <<>> THEN <<>> ELSE JsonKeypair(Head(kps)) \o JsonKeypairs(Tail(kps))

JsonProfile(p) ==
    JsonKeypair(p.current_keypair) \o <<Len(p.old_keys)>> \o JsonKeypairs(p.old_keys)

RECURSIVE JsonProfiles(_, _)
JsonProfiles(db_profiles, i) ==
    IF i > Len(UrlOrder) THEN <<>>
    ELSE (IF UrlOrder[i] \in DOMAIN db_profiles
          THEN <<i>> \o JsonProfile(db_profiles[UrlOrder[i]])
          ELSE <<>>)
         \o JsonProfiles(db_profiles, i + 1)

JsonDumps(ud) ==
    <<UserCode(ud.username)>>
    \o JsonString(ud.identity_public_key)
    \o JsonString(ud.identity_private_key)
    \o <<Cardinality(DOMAIN ud.db_profiles)>>
    \o JsonProfiles(ud.db_profiles, 1)

ParseString(str) ==
    [v |-> SubSeq(str, 2, 1 + str[1]), rest |-> SliceFrom(str, 1 + str[1])]

ParseKeypair(str) ==
    IF str[1] = 0 THEN [v |-> None, rest |-> Tail(str)]
    ELSE LET a == ParseString(Tail(str))
             b == ParseString(a.rest)
             c == ParseString(b.rest)
         IN  [v |-> [private_key |-> a.v, public_key |-> b.v, created_at |-> c.v],
              rest |-> c.rest]

RECURSIVE ParseKeypairs(_, _)
ParseKeypairs(str, n) ==
    IF n = 0 THEN [v |-> <<>>, rest |-> str]
    ELSE LET k == ParseKeypair(str)
             more == ParseKeypairs(k.rest, n - 1)
         IN  [v |-> <<k.v>> \o more.v, rest |-> more.rest]

ParseProfile(str) ==
    LET cur == ParseKeypair(str)
        olds == ParseKeypairs(Tail(cur.rest), cur.rest[1])
    IN  [v |-> [current_keypair |-> cur.v, old_keys |-> olds.v], rest |-> olds.rest]

RECURSIVE ParseProfiles(_, _)
ParseProfiles(str, n) ==
    IF n = 0 THEN [v |-> <<>>, rest |-> str]
    ELSE LET p == ParseProfile(Tail(str))
             more == ParseProfiles(p.rest, n - 1)
         IN  [v |-> (UrlOrder[str[1]] :> p.v) @@ more.v, rest |-> more.rest]

\* json.loads of a text json.dumps produced (the only texts that reach it:
\* decrypt_data releases nothing else).
JsonLoads(str) ==
    LET pub == ParseString(Tail(str))
        priv == ParseString(pub.rest)
        profiles == ParseProfiles(Tail(priv.rest), priv.rest[1])
    IN  [username |-> UserOfCode(str[1]),
         identity_public_key |-> pub.v,
         identity_private_key |-> priv.v,
         db_profiles |-> profiles.v]

(***************************************************************************)
(* ChatManager (src/chat.py)                                               *)
(***************************************************************************)
\* _initialize_chat_keypair storing a new current keypair whether or not the
\* namespace already has one.
InitializeChatKeypairAlways(ud, fresh_private_key, t) ==
    IF SUPABASE_URL \in DOMAIN ud.db_profiles
    THEN [ud EXCEPT !.db_profiles[SUPABASE_URL].current_keypair =
                       KeypairEntry(fresh_private_key, get_timestamp(t))]
    ELSE [ud EXCEPT !.db_profiles =
            (SUPABASE_URL :> [current_keypair |->
                                  KeypairEntry(fresh_private_key, get_timestamp(t)),
                              old_keys |-> <<>>]) @@ ud.db_profiles]

\* _initialize_chat_keypair: the user_data it leaves, given the key the
\* generator would draw (drawn only when a keypair is stored).
InitializeChatKeypair(ud, fresh_private_key, t) ==
    IF SUPABASE_URL \in DOMAIN ud.db_profiles
    THEN IF ud.db_profiles[SUPABASE_URL].current_keypair = None
         THEN [ud EXCEPT !.db_profiles[SUPABASE_URL].current_keypair =
                            KeypairEntry(fresh_private_key, get_timestamp(t))]
         ELSE ud
    ELSE [ud EXCEPT !.db_profiles =
            (SUPABASE_URL :> [current_keypair |->
                                  KeypairEntry(fresh_private_key, get_timestamp(t)),
                              old_keys |-> <<>>]) @@ ud.db_profiles]

\* Whether _initialize_chat_keypair calls PrivateKey.generate().
ChatKeypairNeeded(ud) ==
    \/ SUPABASE_URL \notin DOMAIN ud.db_profiles
    \/ ud.db_profiles[SUPABASE_URL].current_keypair = None

\* The message handed to the relay encoded but not sealed.
SealMessagePlain(identity_private_key, recipient_public_key_str, message, nonce) ==
    Return(Base64Encode(Utf8Encode(message)))

\* send_message up to the relay call: the base64 ciphertext, or Raise.
SealMessage(identity_private_key, recipient_public_key_str, message, nonce) ==
    LET recipient_public_key == Base64Decode(recipient_public_key_str)
    IN  IF ~IsPublicKey(recipient_public_key) THEN Raise("ValueError")
        ELSE LET box == Box(identity_private_key, recipient_public_key)
                 encrypted == BoxEncrypt(box, Utf8Encode(message), nonce)
             IN  Return(Base64Encode(encrypted))

\* The opened bytes handed back without .decode('utf-8').
OpenMessageNoDecode(private_key, sender_public_key, ciphertext) ==
    LET encrypted == Base64Decode(ciphertext)
    IN  IF encrypted = <<-1>> THEN Raise("binascii.Error")
        ELSE BoxDecrypt(Box(private_key, sender_public_key), encrypted)

\* Box(private_key, sender_public_key).decrypt(b64decode(ciphertext))
\* .decode('utf-8'): Return(text) or Raise.
OpenMessage(private_key, sender_public_key, ciphertext) ==
    LET encrypted == Base64Decode(ciphertext)
    IN  IF encrypted = <<-1>> THEN Raise("binascii.Error")
        ELSE LET opened == BoxDecrypt(Box(private_key, sender_public_key), encrypted)
             IN  IF ~opened.ok THEN opened
                 ELSE IF Utf8Decode(opened.data) = <<-1>>
                      THEN Raise("UnicodeDecodeError")
                      ELSE Return(Utf8Decode(opened.data))

\* The loop of _try_decrypt_with_old_keys over old_keys[i..]: Return(text) of
\* the first key that opens, or Raise("None") when the function returns None.
RECURSIVE TryOldKeysFrom(_, _, _, _)
TryOldKeysFrom(old_keys, i, sender_public_key, ciphertext) ==
    IF i > Len(old_keys) THEN Raise("None")
    ELSE LET private_key == Base64Decode(old_keys[i].private_key)
             opened == IF IsPrivateKey(private_key)
                       THEN OpenMessage(private_key, sender_public_key, ciphertext)
                       ELSE Raise("ValueError")
         IN  IF opened.ok THEN opened
             ELSE TryOldKeysFrom(old_keys, i + 1, sender_public_key, ciphertext)

\* The fallback search walking the retired list from its newest entry.
OldKeysNewestFirst(db_profile) ==
    [i \in 1..Len(db_profile.old_keys) |->
        db_profile.old_keys[Len(db_profile.old_keys) + 1 - i]]

\* for key_data in db_profile.get('old_keys', []): the list in its own order.
OldKeysInOrder(db_profile) == db_profile.old_keys

\* The fallback search looking at the most recently retired key only.
TryDecryptWithNewestOldKey(ud, ciphertext, sender_public_key_str) ==
    IF SUPABASE_URL \in DOMAIN ud.db_profiles
    THEN LET sender_public_key == Base64Decode(sender_public_key_str)
             old_keys == ud.db_profiles[SUPABASE_URL].old_keys
         IN  IF ~IsPublicKey(sender_public_key) THEN Raise("None")
             ELSE TryOldKeysFrom(old_keys, Max(1, Len(old_keys)),
                                 sender_public_key, ciphertext)
    ELSE Raise("None")

\* _try_decrypt_with_old_keys(ciphertext, sender_public_key_str)
TryDecryptWithOldKeys(ud, ciphertext, sender_public_key_str) ==
    IF SUPABASE_URL \in DOMAIN ud.db_profiles
    THEN LET sender_public_key == Base64Decode(sender_public_key_str)
         IN  IF ~IsPublicKey(sender_public_key) THEN Raise("None")
             ELSE TryOldKeysFrom(OldKeysInOrder(ud.db_profiles[SUPABASE_URL]), 1,
                                 sender_public_key, ciphertext)
    ELSE Raise("None")

DecryptedMessage(msg, text) ==
    [sender_username |-> msg.sender_username,
     timestamp |-> msg.timestamp,
     decrypted_content |-> text]

\* One pass of the for loop of receive_messages: what it appends for msg.
ReceiveOne(identity_private_key, ud, dir, msg) ==
    LET sender_public_key_str == dir[msg.sender_username]
    IN  IF sender_public_key_str = NoRow THEN <<>>
        ELSE LET sender_public_key == Base64Decode(sender_public_key_str)
                 opened == IF IsPublicKey(sender_public_key)
                           THEN OpenMessage(identity_private_key, sender_public_key,
                                            msg.ciphertext)
                           ELSE Raise("ValueError")
             IN  IF opened.ok THEN <<DecryptedMessage(msg, opened.data)>>
                 ELSE LET decrypted ==
                            TryDecryptWithOldKeys(ud, msg.ciphertext,
                                                  sender_public_key_str)
                      IN  IF decrypted.ok /\ decrypted.data # <<>>
                          THEN <<DecryptedMessage(msg, decrypted.data)>>
                          ELSE <<>>

\* DatabaseManager.get_messages(username): the rows addressed to username,
\* system messages filtered out.
get_messages(rows, username) ==
    SelectSeq(rows, LAMBDA msg : msg.recipient_username = username
                                 /\ msg.sender_username # "system")

\* The loop of receive_messages leaving at the first message it cannot open.
RECURSIVE ReceiveLoopAbort(_, _, _, _)
ReceiveLoopAbort(identity_private_key, ud, dir, encrypted_messages) ==
    IF encrypted_messages = <<>> THEN <<>>
    ELSE LET one == ReceiveOne(identity_private_key, ud, dir,
                               Head(encrypted_messages))
         IN  IF one = <<>> THEN <<>>
             ELSE one \o ReceiveLoopAbort(identity_private_key, ud, dir,
                                          Tail(encrypted_messages))

RECURSIVE ReceiveLoop(_, _, _, _)
ReceiveLoop(identity_private_key, ud, dir, encrypted_messages) ==
    IF encrypted_messages = <<>> THEN <<>>
    ELSE ReceiveOne(identity_private_key, ud, dir, Head(encrypted_messages))
         \o ReceiveLoop(identity_private_key, ud, dir, Tail(encrypted_messages))

\* receive_messages() of the chat manager of username.
receive_messages(username, identity_private_key, ud, dir, rows) ==
    ReceiveLoop(identity_private_key, ud, dir, get_messages(rows, username))

(***************************************************************************)
(* KeyRotationManager.rotate_key (src/key_rotate.py), lines 40-74: the     *)
(* in-memory rotation.  k1 and k2 are the two PrivateKey.generate() draws. *)
(***************************************************************************)
\* The rotation that forgets to retire the current keypair.
RetireCurrentDropped(db_profile) == db_profile

RetireCurrent(db_profile) ==
    IF db_profile.current_keypair # None
    THEN [db_profile EXCEPT !.old_keys = Append(@, db_profile.current_keypair)]
    ELSE db_profile

RotateInMemory(ud, k1, k2, t) ==
    LET db_profile == RetireCurrent(ud.db_profiles[SUPABASE_URL])
        rotated == [db_profile EXCEPT !.current_keypair =
                                        KeypairEntry(k1, get_timestamp(t))]
    IN  [ud EXCEPT !.db_profiles[SUPABASE_URL] = rotated,
                   !.identity_private_key = Base64Encode(k2),
                   !.identity_public_key = Base64Encode(PublicKeyOf(k2))]

(***************************************************************************)
(* DatabaseManager (src/db_connect.py)                                     *)
(***************************************************************************)
\* _connect_to_supabase, lines 70-75: the namespace entry it stores.
ConnectProfile(ud) ==
    IF SUPABASE_URL \notin DOMAIN ud.db_profiles
    THEN [ud EXCEPT !.db_profiles =
            (SUPABASE_URL :> [current_keypair |-> None, old_keys |-> <<>>])
            @@ ud.db_profiles]
    ELSE ud

\* _register_user_key: update the row when it exists, insert it otherwise.
RegisterUserKey(dir, username, public_key) ==
    IF dir[username] # NoRow
    THEN [dir EXCEPT ![username] = public_key]
    ELSE [dir EXCEPT ![username] = public_key]

\* update_public_key: UPDATE ... WHERE username = ?, which changes the row
\* when there is one and changes nothing (without an error) when there is none.
UpdatePublicKey(dir, username, public_key) ==
    IF dir[username] # NoRow
    THEN [dir EXCEPT ![username] = public_key]
    ELSE dir

\* DatabaseManager.send_message: the row inserted into message_log.
MessageRow(sender, recipient, ciphertext, t) ==
    [sender_username |-> sender,
     recipient_username |-> recipient,
     ciphertext |-> ciphertext,
     timestamp |-> get_timestamp(t)]

(***************************************************************************)
(* LoginManager (src/login.py)                                             *)
(***************************************************************************)
\* _save_user_profile / rotate_key lines 90-93: the bytes written.
ProfileBytes(ud, password, salt, nonce, t) ==
    encrypt_data(Utf8Encode(JsonDumps(ud)), password, salt, nonce, IsoFormat(t))

\* login_user / get_user_data: the dict loaded, or None.
LoadProfile(file, password) ==
    IF file = NoFile THEN None
    ELSE LET decrypted_data == decrypt_data(file[1], password)
         IN  IF ~decrypted_data.ok THEN None
             ELSE JsonLoads(Utf8Decode(decrypted_data.data))

\* with open(path, 'wb') as f: f.write(data).  The open truncates the file;
\* the write then stores data or fails.
WriteFile(old, data, outcome) ==
    CASE outcome = "ok" -> File(data)
      [] outcome = "open_fails" -> old
      [] outcome = "write_fails" -> File(<<>>)

(***************************************************************************)
(* The peer: bob, registered and published before alice starts.            *)
(***************************************************************************)
BobPrivateKey == <<90>>

BobUserData ==
    [username |-> "bob",
     identity_public_key |-> Base64Encode(PublicKeyOf(BobPrivateKey)),
     identity_private_key |-> Base64Encode(BobPrivateKey),
     db_profiles |-> (SUPABASE_URL :>
                        [current_keypair |-> None, old_keys |-> <<>>])]

\* A public key whose private key no principal of the model ever held.
UnknownPublicKey == <<199>>

(***************************************************************************)
(* Codec harness: encrypt_data and decrypt_data applied to drawn inputs.   *)
(***************************************************************************)
\* Longest plaintext drawn.
MaxDataLen == 2

\* Bytes a drawn plaintext is made of (low, high and wrap-around values).
DataBytes == {0, 65, 255}

Plaintexts == UNION {[1..n -> DataBytes] : n \in 0..MaxDataLen}

\* Passwords as code points: "a", "b", "ab", and "é" (two bytes in UTF-8).
Passwords == {<<97>>, <<98>>, <<97, 98>>, <<233>>}

Salts == {[i \in 1..SALT_SIZE |-> 1], [i \in 1..SALT_SIZE |-> IF i = 1 THEN 200 ELSE 9]}

Nonces == {[i \in 1..NONCE_SIZE |-> 0], [i \in 1..NONCE_SIZE |-> 255]}

\* isoformat() prints the microseconds only when they are not zero, so the
\* associated data has one of two lengths.
IsoStamps == {<<49, 57>>, <<49, 57, 46, 53>>}

NoResult == [ok |-> FALSE, err |-> "none"]

NoDraw == [salt |-> <<>>, nonce |-> <<>>, stamp |-> <<>>]

\* One bit of a byte inverted: bit k of 0..7.
FlipBit(byte, k) ==
    IF (byte \div (2 ^ k)) % 2 = 1 THEN byte - 2 ^ k ELSE byte + 2 ^ k

\* The offsets (1-based, inclusive) of the fields of a container whose
\* associated data is n bytes long.
FieldRange(field, n, len) ==
    CASE field = "tag" ->
            (SALT_SIZE + NONCE_SIZE + 1) .. (SALT_SIZE + NONCE_SIZE + TAG_SIZE)
      [] field = "associated_data" ->
            (SALT_SIZE + NONCE_SIZE + TAG_SIZE + 3)
            .. (SALT_SIZE + NONCE_SIZE + TAG_SIZE + 2 + n)
      [] field = "ciphertext" ->
            (SALT_SIZE + NONCE_SIZE + TAG_SIZE + 3 + n) .. len

TamperedFields == {"tag", "associated_data", "ciphertext"}

\* Lengths declared in the assoc_len field of a container with `remaining`
\* bytes after its fixed fields: one more than there are, and the largest.
OverrunLengths(remaining) == {remaining + 1, 65535}

\* No MessageStorage object and no storage file yet.
StorageClosed ==
    /\ s_pc = "closed"
    /\ s_messages = <<>>
    /\ s_file = NoFile
    /\ s_ret = NoReturn
    /\ s_password = Unset

\* No call of receive_messages is running.
ReceiveIdle ==
    /\ r_pc = "idle"
    /\ r_encrypted_messages = <<>>
    /\ r_decrypted_messages = <<>>
    /\ r_msg = 0
    /\ r_key = 0
    /\ tried = <<>>

\* get_new_messages, lines 353: msg_id = f"db_{sender_username}_{timestamp}".
MsgId(msg) == <<100, 98, 95>> \o <<msg.sender_username>> \o <<95>> \o msg.timestamp

\* chat_interface has not been entered: its locals are fresh.
ChatIdle ==
    /\ displayed_message_ids = {}
    /\ displayed_log = <<>>

Threads == {"poller", "main"}

\* No thread is inside add_message.
ThreadsIdle ==
    /\ t_pc = [th \in Threads |-> "idle"]
    /\ t_data = [th \in Threads |-> <<>>]

\* Paths the command is given.
Paths == {"a", "a.hee"}

\* No command has run; the working directory holds nothing.
CliIdle ==
    /\ fs = [path \in Paths |-> NoFile]
    /\ cli_ret = NoReturn

ExtrasIdle == ReceiveIdle /\ ChatIdle /\ ThreadsIdle /\ CliIdle

CodecIdle ==
    /\ c_pc = "idle"
    /\ c_data = <<>>
    /\ c_password = <<>>
    /\ c_container = <<>>
    /\ c_result = NoResult
    /\ c_draw = NoDraw
    /\ c_damage = "none"
    /\ StorageClosed
    /\ ExtrasIdle

SessionStart ==
    /\ profile_file = NoFile
    /\ directory = [u \in Usernames |->
                      IF u = "bob" THEN BobUserData.identity_public_key ELSE NoRow]
    /\ relay = <<>>
    /\ sealed_log = <<>>
    /\ retired_seen = <<>>
    /\ current_seen = None
    /\ now = [day |-> 1, sec |-> 0]
    /\ pc = "start"
    /\ user_data = None
    /\ app_user_data = None
    /\ user_password = Unset
    /\ supabase = FALSE
    /\ chat_identity_private_key = Unset
    /\ chat_partner = None
    /\ keygen = 0
    /\ ret = NoReturn

CodecInit ==
    /\ c_pc = "input"
    /\ c_data \in Plaintexts
    /\ c_password \in Passwords
    /\ c_container = <<>>
    /\ c_result = NoResult
    /\ c_draw = NoDraw
    /\ c_damage = "none"
    /\ StorageClosed
    /\ ExtrasIdle
    /\ SessionStart

CodecEncrypt ==
    /\ c_pc = "input"
    /\ \E salt \in Salts, nonce \in Nonces, stamp \in IsoStamps :
          /\ c_container' = encrypt_data(c_data, c_password, salt, nonce, stamp)
          /\ c_draw' = [salt |-> salt, nonce |-> nonce, stamp |-> stamp]
    /\ c_pc' = "encrypted"
    /\ UNCHANGED <<c_data, c_password, c_result, c_damage, worldVars,
                   processVars, storageVars, extraVars>>

CodecDecrypt ==
    /\ c_pc = "encrypted"
    /\ c_result' = decrypt_data(c_container, c_password)
    /\ c_pc' = "decrypted"
    /\ UNCHANGED <<c_data, c_password, c_container, c_draw, c_damage,
                   worldVars, processVars, storageVars, extraVars>>

\* The stored container has one bit of its tag, associated data or ciphertext
\* inverted before it is read back.
CodecFlipBit ==
    /\ c_pc = "encrypted"
    /\ \E field \in TamperedFields :
          \E i \in FieldRange(field, Len(MetadataPrefix \o c_draw.stamp),
                              Len(c_container)),
             k \in 0..7 :
             /\ c_container' = [c_container EXCEPT ![i] = FlipBit(@, k)]
             /\ c_damage' = field
    /\ c_pc' = "damaged"
    /\ UNCHANGED <<c_data, c_password, c_result, c_draw, worldVars,
                   processVars, storageVars, extraVars>>

\* The stored container is cut short of its fixed fields.
CodecTruncate ==
    /\ c_pc = "encrypted"
    /\ \E n \in 0 .. (SALT_SIZE + NONCE_SIZE + TAG_SIZE + 1) :
          c_container' = SubSeq(c_container, 1, n)
    /\ c_damage' = "truncated"
    /\ c_pc' = "damaged"
    /\ UNCHANGED <<c_data, c_password, c_result, c_draw, worldVars,
                   processVars, storageVars, extraVars>>

\* The assoc_len field declares more bytes than follow the fixed fields.
CodecOverrun ==
    /\ c_pc = "encrypted"
    /\ \E n \in OverrunLengths(Len(c_container)
                                - (SALT_SIZE + NONCE_SIZE + TAG_SIZE + 2)) :
          c_container' =
              [c_container EXCEPT
                  ![SALT_SIZE + NONCE_SIZE + TAG_SIZE + 1] = ToBytes2(n)[1],
                  ![SALT_SIZE + NONCE_SIZE + TAG_SIZE + 2] = ToBytes2(n)[2]]
    /\ c_damage' = "assoc_len"
    /\ c_pc' = "damaged"
    /\ UNCHANGED <<c_data, c_password, c_result, c_draw, worldVars,
                   processVars, storageVars, extraVars>>

\* decrypt_data reads the damaged container with the right password.
CodecDecryptDamaged ==
    /\ c_pc = "damaged"
    /\ c_result' = decrypt_data(c_container, c_password)
    /\ c_pc' = "tried"
    /\ UNCHANGED <<c_data, c_password, c_container, c_draw, c_damage,
                   worldVars, processVars, storageVars, extraVars>>

\* decrypt_data reads the intact container with another password.
CodecDecryptWrongPassword ==
    /\ c_pc = "encrypted"
    /\ \E password \in Passwords \ {c_password} :
          c_result' = decrypt_data(c_container, password)
    /\ c_damage' = "password"
    /\ c_pc' = "tried"
    /\ UNCHANGED <<c_data, c_password, c_container, c_draw, worldVars,
                   processVars, storageVars, extraVars>>

CodecNext ==
    \/ CodecEncrypt
    \/ CodecDecrypt
    \/ CodecFlipBit
    \/ CodecTruncate
    \/ CodecOverrun
    \/ CodecDecryptDamaged
    \/ CodecDecryptWrongPassword

SpecCodec == CodecInit /\ [][CodecNext]_vars


(***************************************************************************)
(* The session: one user (alice) running main.Application against the      *)
(* directory, the relay and her profile file, and the peer bob.            *)
(***************************************************************************)
\* PrivateKey.generate() draws the process may make.
MaxKeys == 6

\* Rows the relay may hold in a session with faults.
MaxRelay == 2

\* Rows the relay may hold when any client may insert rows.
MaxInbox == 3

\* The password alice registers with: "a".
RegisterPassword == <<97>>

\* Passwords typed at the prompts: "a" and "b".
SessionPasswords == {<<97>>, <<98>>}

\* The text of the i-th row of the relay, as code points: "h1", "é2", "h3", ...
\* (chat_interface never sends an empty line).
MessageText(i) == IF i % 2 = 1 THEN <<104, 48 + i>> ELSE <<233, 48 + i>>

\* nacl.utils.random(Box.NONCE_SIZE)
BoxNonces == {7}

WriteOutcomes == {"ok", "open_fails", "write_fails"}

\* os.urandom draws of the session's container writes.
SessionSalts == {[i \in 1..SALT_SIZE |-> 1]}

SessionNonces == {[i \in 1..NONCE_SIZE |-> 0]}

\* What rotate_key prints before it returns False.
PublishFailed == "Failed to update public key in database."

RotateError == "Error rotating keys"

\* What rotate_key prints when the record has no entry for the namespace.
NoProfile == "No profile"

AppUserData == IF app_user_data = SameObject THEN user_data ELSE app_user_data

HasNamespace(ud) == ud # None /\ SUPABASE_URL \in DOMAIN ud.db_profiles

\* db_profile.get('old_keys', []) of the namespace entry of ud.
Retired(ud) == IF HasNamespace(ud) THEN ud.db_profiles[SUPABASE_URL].old_keys ELSE <<>>

\* The retired list last held by a loaded record.
Seen(ud, seen) == IF HasNamespace(ud) THEN Retired(ud) ELSE seen

\* The current keypair last held for the namespace by a record.
SeenCurrent(ud, seen) ==
    IF HasNamespace(ud) /\ ud.db_profiles[SUPABASE_URL].current_keypair # None
    THEN ud.db_profiles[SUPABASE_URL].current_keypair
    ELSE seen

\* The interpreter exits: run() has returned.
ProcessExit ==
    /\ pc' = "start"
    /\ user_data' = None
    /\ app_user_data' = None
    /\ user_password' = Unset
    /\ supabase' = FALSE
    /\ chat_identity_private_key' = Unset
    /\ chat_partner' = None
    /\ ret' = NoReturn

SpecInit == CodecIdle /\ SessionStart

\* login_or_register, no profile on disk: register_user("alice", password).
RegisterWith(confirms, outcomes) ==
    /\ pc = "start"
    /\ profile_file = NoFile
    /\ keygen < MaxKeys
    /\ \E confirm_password \in confirms, salt \in SessionSalts,
          nonce \in SessionNonces, outcome \in outcomes :
          IF RegisterPassword # confirm_password
          THEN /\ ProcessExit
               /\ UNCHANGED <<keygen, worldVars>>
          ELSE LET identity_private_key == PrivateKeyGenerate(keygen + 1)
                   new_user_data ==
                       [username |-> "alice",
                        identity_public_key |->
                            Base64Encode(PublicKeyOf(identity_private_key)),
                        identity_private_key |-> Base64Encode(identity_private_key),
                        db_profiles |-> <<>>]
                   encrypted_data ==
                       ProfileBytes(new_user_data, RegisterPassword, salt, nonce, now)
               IN  /\ keygen' = keygen + 1
                   /\ profile_file' = WriteFile(profile_file, encrypted_data, outcome)
                   /\ IF outcome = "ok"
                      THEN /\ pc' = "loggedin"
                           /\ user_data' = new_user_data
                           /\ app_user_data' = SameObject
                           /\ user_password' = RegisterPassword
                           /\ ret' = NoReturn
                           /\ UNCHANGED <<supabase, chat_identity_private_key,
                                          chat_partner>>
                      ELSE ProcessExit
                   /\ UNCHANGED <<directory, relay, sealed_log, retired_seen,
                                  current_seen, now>>
    /\ UNCHANGED codecVars

\* login_or_register, profile on disk: login_user(password).
LoginWith(passwords) ==
    /\ pc = "start"
    /\ profile_file # NoFile
    /\ \E password \in passwords :
          LET loaded == LoadProfile(profile_file, password)
          IN  IF loaded = None
              THEN /\ ProcessExit
                   /\ UNCHANGED retired_seen
              ELSE /\ pc' = "loggedin"
                   /\ user_data' = loaded
                   /\ app_user_data' = SameObject
                   /\ user_password' = password
                   /\ ret' = NoReturn
                   /\ retired_seen' = Seen(loaded, retired_seen)
                   /\ UNCHANGED <<supabase, chat_identity_private_key,
                                  chat_partner>>
    /\ UNCHANGED <<keygen, profile_file, directory, relay, sealed_log,
                   current_seen, now, codecVars>>

\* initialize_managers: DatabaseManager, ChatManager, KeyRotationManager.
\* connected: _connect_to_supabase returned a client; registered:
\* _register_user_key raised nothing; retry: the answer to "continue anyway?".
InitializeManagersOf(connecteds, registereds) ==
    /\ pc = "loggedin"
    /\ \E connected \in connecteds, registered \in registereds, retry \in BOOLEAN :
          LET ud1 == IF connected THEN ConnectProfile(user_data) ELSE user_data
              dir1 == IF connected /\ registered
                      THEN RegisterUserKey(directory, ud1.username,
                                           ud1.identity_public_key)
                      ELSE directory
              draw == ChatKeypairNeeded(ud1)
              ud2 == InitializeChatKeypair(ud1, PrivateKeyGenerate(keygen + 1), now)
          IN  /\ connected \/ ~registered
              /\ connected => retry
              /\ IF ~connected /\ ~retry
                 THEN /\ ProcessExit
                      /\ UNCHANGED <<keygen, directory, retired_seen,
                                     current_seen>>
                 ELSE /\ draw => keygen < MaxKeys
                      /\ supabase' = connected
                      /\ directory' = dir1
                      /\ chat_identity_private_key' =
                             Base64Decode(ud1.identity_private_key)
                      /\ user_data' = ud2
                      /\ keygen' = IF draw THEN keygen + 1 ELSE keygen
                      /\ pc' = "menu"
                      /\ ret' = NoReturn
                      /\ retired_seen' = Seen(ud2, retired_seen)
                      /\ current_seen' = SeenCurrent(ud2, current_seen)
                      /\ UNCHANGED <<app_user_data, user_password, chat_partner>>
    /\ UNCHANGED <<profile_file, relay, sealed_log, now>>

\* initialize_managers with the message storage left out of the picture.
InitializeManagersWith(connecteds, registereds) ==
    /\ InitializeManagersOf(connecteds, registereds)
    /\ UNCHANGED codecVars

\* KeyRotationManager.rotate_key, lines 76-102, after the in-memory rotation:
\* the directory update, then the profile write.  connected: the manager holds
\* a client; published: the update raised nothing.
PublishAndSave(rotated, dir, file, connected, published, encrypted_data, outcome) ==
    IF ~(connected /\ published)
    THEN [success |-> FALSE, printed |-> PublishFailed,
          directory |-> dir, profile_file |-> file]
    ELSE [success |-> outcome = "ok",
          printed |-> IF outcome = "ok" THEN "" ELSE RotateError,
          directory |-> UpdatePublicKey(dir, rotated.username,
                                        rotated.identity_public_key),
          profile_file |-> WriteFile(file, encrypted_data, outcome)]

\* rotate_key undoing the in-memory rotation when it is about to return False.
rotate_key_rollback(ud, k1, k2, t, dir, file, connected, input) ==
    LET rotated == RotateInMemory(ud, k1, k2, t)
        done == PublishAndSave(rotated, dir, file, connected, input.published,
                    ProfileBytes(rotated, input.password, input.salt,
                                 input.nonce, t),
                    input.outcome)
    IN  IF SUPABASE_URL \notin DOMAIN ud.db_profiles
        THEN [success |-> FALSE, printed |-> NoProfile, draws |-> 0,
              user_data |-> ud, directory |-> dir, profile_file |-> file]
        ELSE [success |-> done.success,
              printed |-> done.printed,
              draws |-> 2,
              user_data |-> IF done.success THEN rotated ELSE ud,
              directory |-> done.directory,
              profile_file |-> done.profile_file]

\* rotate_key creating the namespace entry it does not find (setdefault)
\* instead of returning False.
rotate_key_creating_namespace(ud, k1, k2, t, dir, file, connected, input) ==
    LET known == IF SUPABASE_URL \in DOMAIN ud.db_profiles THEN ud
                 ELSE [ud EXCEPT !.db_profiles =
                         (SUPABASE_URL :> [current_keypair |-> None,
                                           old_keys |-> <<>>]) @@ ud.db_profiles]
        rotated == RotateInMemory(known, k1, k2, t)
        done == PublishAndSave(rotated, dir, file, connected, input.published,
                    ProfileBytes(rotated, input.password, input.salt,
                                 input.nonce, t),
                    input.outcome)
    IN  [success |-> done.success,
         printed |-> done.printed,
         draws |-> 2,
         user_data |-> rotated,
         directory |-> done.directory,
         profile_file |-> done.profile_file]

\* KeyRotationManager.rotate_key: the namespace lookup, the in-memory rotation,
\* then the directory update and the profile write.  input holds what the call
\* reads from outside: published, the password typed, the os.urandom draws and
\* the write's outcome.  draws: the PrivateKey.generate() calls made.
rotate_key(ud, k1, k2, t, dir, file, connected, input) ==
    LET rotated == RotateInMemory(ud, k1, k2, t)
        done == PublishAndSave(rotated, dir, file, connected, input.published,
                    ProfileBytes(rotated, input.password, input.salt,
                                 input.nonce, t),
                    input.outcome)
    IN  IF SUPABASE_URL \notin DOMAIN ud.db_profiles
        THEN [success |-> FALSE, printed |-> NoProfile, draws |-> 0,
              user_data |-> ud, directory |-> dir, profile_file |-> file]
        ELSE [success |-> done.success,
              printed |-> done.printed,
              draws |-> 2,
              user_data |-> rotated,
              directory |-> done.directory,
              profile_file |-> done.profile_file]

\* s.split(' ')[0]: the characters before the first space.
RECURSIVE BeforeSpace(_, _)
BeforeSpace(str, i) ==
    IF i > Len(str) \/ str[i] = 32 THEN SubSeq(str, 1, i - 1)
    ELSE BeforeSpace(str, i + 1)

\* check_key_rotation_needed answering the opposite of the date comparison.
check_key_rotation_needed_inverted(ud, t) ==
    IF SUPABASE_URL \notin DOMAIN ud.db_profiles THEN FALSE
    ELSE LET db_profile == ud.db_profiles[SUPABASE_URL]
         IN  IF db_profile.current_keypair = None THEN TRUE
             ELSE LET created_at == db_profile.current_keypair.created_at
                      current_time == get_timestamp(t)
                      day_ago == BeforeSpace(current_time, 1)
                      created_date == BeforeSpace(created_at, 1)
                  IN  created_date = day_ago

\* KeyRotationManager.check_key_rotation_needed
check_key_rotation_needed(ud, t) ==
    IF SUPABASE_URL \notin DOMAIN ud.db_profiles THEN FALSE
    ELSE LET db_profile == ud.db_profiles[SUPABASE_URL]
         IN  IF db_profile.current_keypair = None THEN TRUE
             ELSE LET created_at == db_profile.current_keypair.created_at
                      current_time == get_timestamp(t)
                      day_ago == BeforeSpace(current_time, 1)
                      created_date == BeforeSpace(created_at, 1)
                  IN  created_date # day_ago

\* Application.rotate_key, lines 569-574: what Application.user_data becomes.
AfterRotate(success, current, file, reload_password) ==
    IF success THEN LoadProfile(file, reload_password) ELSE current

\* Menu option 3 answered 'y': Application.rotate_key, which calls
\* KeyRotationManager.rotate_key and, on success, LoginManager.get_user_data.
RotateKeyWith(publisheds, passwords, outcomes) ==
    /\ pc = "menu"
    /\ keygen + 2 <= MaxKeys
    /\ \E published \in publisheds, password \in passwords,
               salt \in SessionSalts, nonce \in SessionNonces,
               outcome \in outcomes, reload_password \in passwords :
               LET done == rotate_key(user_data,
                                      PrivateKeyGenerate(keygen + 1),
                                      PrivateKeyGenerate(keygen + 2), now,
                                      directory, profile_file, supabase,
                                      [published |-> published,
                                       password |-> password,
                                       salt |-> salt, nonce |-> nonce,
                                       outcome |-> outcome])
               IN  /\ user_data' = done.user_data
                   /\ keygen' = keygen + done.draws
                   /\ directory' = done.directory
                   /\ profile_file' = done.profile_file
                   /\ ret' = [op |-> "rotate_key", val |-> done.success,
                              printed |-> done.printed]
                   /\ app_user_data' =
                          AfterRotate(done.success, app_user_data,
                                      done.profile_file, reload_password)
    /\ retired_seen' = Seen(user_data', retired_seen)
    /\ current_seen' = SeenCurrent(user_data', current_seen)
    /\ UNCHANGED <<pc, user_password, supabase, chat_identity_private_key,
                   chat_partner, relay, sealed_log, now, codecVars>>

\* Menu option 4: logout(), then the loop breaks and run() returns.
Logout ==
    /\ pc = "menu"
    /\ ProcessExit
    /\ UNCHANGED <<keygen, worldVars, codecVars>>

\* Menu option 2: start_chat picks bob's row and enters chat_interface.  With
\* Application.user_data None, self.user_data['username'] (line 302) raises,
\* run() catches it and the process ends.
StartChat ==
    /\ pc = "menu"
    /\ supabase
    /\ directory["bob"] # NoRow
    /\ IF AppUserData = None
       THEN ProcessExit
       ELSE /\ chat_partner' = [username |-> "bob",
                                public_key |-> directory["bob"]]
            /\ pc' = "chat"
            /\ ret' = NoReturn
            /\ UNCHANGED <<user_data, app_user_data, user_password, supabase,
                           chat_identity_private_key>>
    /\ UNCHANGED <<keygen, worldVars, codecVars>>

\* chat_interface: a typed line is sent with ChatManager.send_message; stored:
\* the insert into message_log raised nothing.
ChatSend ==
    /\ pc = "chat"
    /\ \E nonce \in BoxNonces, stored \in BOOLEAN :
          LET message == MessageText(Len(relay) + 1)
              sealed == SealMessage(chat_identity_private_key,
                                    chat_partner.public_key, message, nonce)
          IN  IF sealed.ok /\ stored
              THEN /\ Len(relay) < MaxRelay
                   /\ relay' = Append(relay,
                                      MessageRow(user_data.username,
                                                 chat_partner.username,
                                                 sealed.data, now))
                   /\ sealed_log' = Append(sealed_log,
                          [text |-> message,
                           private_key |-> chat_identity_private_key,
                           public_key |-> Base64Decode(chat_partner.public_key),
                           draws |-> keygen])
                   /\ ret' = [op |-> "send_message", who |-> "alice", val |-> TRUE]
              ELSE /\ ret' = [op |-> "send_message", who |-> "alice", val |-> FALSE]
                   /\ UNCHANGED <<relay, sealed_log>>
    /\ UNCHANGED <<pc, user_data, app_user_data, user_password, supabase,
                   chat_identity_private_key, chat_partner, keygen,
                   profile_file, directory, retired_seen, current_seen, now,
                   codecVars>>

\* chat_interface: the poller or 'refresh' calls get_new_messages, which calls
\* ChatManager.receive_messages.
ChatReceive ==
    /\ pc = "chat"
    /\ ret' = [op |-> "receive_messages", who |-> user_data.username,
               val |-> receive_messages(user_data.username,
                                        chat_identity_private_key, user_data,
                                        directory, relay)]
    /\ UNCHANGED <<pc, user_data, app_user_data, user_password, supabase,
                   chat_identity_private_key, chat_partner, keygen,
                   worldVars, codecVars>>

\* chat_interface: 'quit'.
ChatQuit ==
    /\ pc = "chat"
    /\ pc' = "menu"
    /\ ret' = NoReturn
    /\ UNCHANGED <<user_data, app_user_data, user_password, supabase,
                   chat_identity_private_key, chat_partner, keygen,
                   worldVars, codecVars>>

\* The public key bob's start_chat reads for alice in users_public_keys.
DirectoryTargets ==
    IF directory["alice"] # NoRow THEN {directory["alice"]} ELSE {}

\* Public keys a row inserted by any client may have been sealed against: the
\* directory's, any key alice's process generated, or one nobody holds.
InboxTargets ==
    DirectoryTargets
    \cup {Base64Encode(PublicKeyOf(PrivateKeyGenerate(k))) : k \in 1..keygen}
    \cup {Base64Encode(UnknownPublicKey)}

\* bob's chat manager sends a message to alice: ChatManager.send_message with
\* bob's identity key, sealed against target.  draws is the history kept with
\* the row: the number of keys alice had drawn when it was sealed.
PeerSendTo(targets, max, draws) ==
    /\ Len(relay) < max
    /\ \E nonce \in BoxNonces, target \in targets :
          LET message == MessageText(Len(relay) + 1)
              sealed == SealMessage(BobPrivateKey, target, message, nonce)
          IN  /\ sealed.ok
              /\ relay' = Append(relay,
                                 MessageRow("bob", "alice", sealed.data, now))
              /\ sealed_log' = Append(sealed_log,
                                      [text |-> message,
                                       private_key |-> BobPrivateKey,
                                       public_key |-> Base64Decode(target),
                                       draws |-> draws])
    /\ ret' = [op |-> "send_message", who |-> "bob", val |-> TRUE]
    /\ UNCHANGED <<pc, user_data, app_user_data, user_password, supabase,
                   chat_identity_private_key, chat_partner, keygen,
                   profile_file, directory, retired_seen, current_seen, now,
                   codecVars>>

\* bob's chat manager polls: ChatManager.receive_messages.
PeerReceive ==
    /\ ret' = [op |-> "receive_messages", who |-> "bob",
               val |-> receive_messages("bob", BobPrivateKey, BobUserData,
                                        directory, relay)]
    /\ UNCHANGED <<pc, user_data, app_user_data, user_password, supabase,
                   chat_identity_private_key, chat_partner, keygen,
                   worldVars, codecVars>>

(***************************************************************************)
(* Spec: the session with its faults (no connection, a registration or a   *)
(* publication that fails, a profile write that fails, a wrong password);  *)
(* bob seals against the key the directory shows for alice.                *)
(***************************************************************************)
Register == RegisterWith(SessionPasswords, WriteOutcomes)

Login == LoginWith(SessionPasswords)

InitializeManagers == InitializeManagersWith(BOOLEAN, BOOLEAN)

RotateKey == RotateKeyWith(BOOLEAN, SessionPasswords, WriteOutcomes)

PeerSend == PeerSendTo(DirectoryTargets, MaxRelay, keygen)

Next ==
    \/ Register
    \/ Login
    \/ InitializeManagers
    \/ RotateKey
    \/ Logout
    \/ StartChat
    \/ ChatSend
    \/ ChatReceive
    \/ ChatQuit
    \/ PeerSend
    \/ PeerReceive

Spec == SpecInit /\ [][Next]_vars

(***************************************************************************)
(* SpecInbox: the session without faults, with a relay into which any      *)
(* client inserts rows for alice (no sealing time is kept with them).      *)
(***************************************************************************)
InboxRegister == RegisterWith({RegisterPassword}, {"ok"})

InboxLogin == LoginWith({RegisterPassword})

InboxInitializeManagers == InitializeManagersWith({TRUE}, {TRUE})

InboxRotateKey == RotateKeyWith({TRUE}, {RegisterPassword}, {"ok"})

InboxSend == PeerSendTo(InboxTargets, MaxInbox, 0)

InboxNext ==
    \/ InboxRegister
    \/ InboxLogin
    \/ InboxInitializeManagers
    \/ InboxRotateKey
    \/ Logout
    \/ StartChat
    \/ ChatReceive
    \/ ChatQuit
    \/ InboxSend

SpecInbox == SpecInit /\ [][InboxNext]_vars

(***************************************************************************)
(* SpecFallback: the session of SpecInbox in which one call of             *)
(* ChatManager.receive_messages (src/chat.py, lines 107-161 and 163-206)   *)
(* runs statement by statement; tried keeps every Box(...).decrypt it made. *)
(***************************************************************************)
MaxFallbackRows == 2

\* One Box(...).decrypt of the call: for which message, with which private
\* key, whether that key was self.identity_private_key, and whether it opened.
Attempt(msg, private_key, current, opened) ==
    [msg |-> msg, private_key |-> private_key, current |-> current,
     opened |-> opened]

\* The for loop of receive_messages goes to its next message (or ends) after
\* appending appended to decrypted_messages.
NextMessage(appended) ==
    /\ r_decrypted_messages' = r_decrypted_messages \o appended
    /\ r_key' = 0
    /\ IF r_msg < Len(r_encrypted_messages)
       THEN r_msg' = r_msg + 1 /\ r_pc' = "current"
       ELSE r_msg' = r_msg /\ r_pc' = "done"

\* receive_messages, lines 114-118: the rows are fetched.
ReceiveFetch ==
    /\ pc = "chat"
    /\ r_pc = "idle"
    /\ r_encrypted_messages' = get_messages(relay, user_data.username)
    /\ r_decrypted_messages' = <<>>
    /\ tried' = <<>>
    /\ r_key' = 0
    /\ r_msg' = 1
    /\ r_pc' = IF get_messages(relay, user_data.username) = <<>>
               THEN "done" ELSE "current"
    /\ ret' = NoReturn
    /\ UNCHANGED <<pc, user_data, app_user_data, user_password, supabase,
                   chat_identity_private_key, chat_partner, keygen, worldVars,
                   c_pc, c_data, c_password, c_container, c_result, c_draw,
                   c_damage, storageVars, chatVars, threadVars, cliVars>>

\* receive_messages, lines 120-149: the sender's key is looked up and the
\* message is opened with self.identity_private_key.
ReceiveTryCurrent ==
    /\ r_pc = "current"
    /\ LET msg == r_encrypted_messages[r_msg]
           sender_public_key_str == directory[msg.sender_username]
           sender_public_key == Base64Decode(sender_public_key_str)
           opened == IF IsPublicKey(sender_public_key)
                     THEN OpenMessage(chat_identity_private_key,
                                      sender_public_key, msg.ciphertext)
                     ELSE Raise("ValueError")
       IN  IF sender_public_key_str = NoRow
           THEN NextMessage(<<>>) /\ UNCHANGED tried
           ELSE /\ tried' = IF IsPublicKey(sender_public_key)
                            THEN Append(tried,
                                        Attempt(r_msg, chat_identity_private_key,
                                                TRUE, opened.ok))
                            ELSE tried
                /\ IF opened.ok
                   THEN NextMessage(<<DecryptedMessage(msg, opened.data)>>)
                   ELSE IF HasNamespace(user_data) /\ IsPublicKey(sender_public_key)
                        THEN /\ r_pc' = "old"
                             /\ r_key' = 1
                             /\ UNCHANGED <<r_msg, r_decrypted_messages>>
                        ELSE NextMessage(<<>>)
    /\ UNCHANGED <<r_encrypted_messages, worldVars, processVars,
                   c_pc, c_data, c_password, c_container, c_result, c_draw,
                   c_damage, storageVars, chatVars, threadVars, cliVars>>

\* _try_decrypt_with_old_keys, lines 186-203: one pass of its for loop, or
\* its return None once the list is used up.
ReceiveTryOld ==
    /\ r_pc = "old"
    /\ LET msg == r_encrypted_messages[r_msg]
           sender_public_key == Base64Decode(directory[msg.sender_username])
           old_keys == OldKeysInOrder(user_data.db_profiles[SUPABASE_URL])
       IN  IF r_key > Len(old_keys)
           THEN NextMessage(<<>>) /\ UNCHANGED tried
           ELSE LET private_key == Base64Decode(old_keys[r_key].private_key)
                    opened == IF IsPrivateKey(private_key)
                              THEN OpenMessage(private_key, sender_public_key,
                                               msg.ciphertext)
                              ELSE Raise("ValueError")
                IN  /\ tried' = IF IsPrivateKey(private_key)
                                THEN Append(tried, Attempt(r_msg, private_key,
                                                           FALSE, opened.ok))
                                ELSE tried
                    /\ IF opened.ok
                       THEN NextMessage(IF opened.data # <<>>
                                        THEN <<DecryptedMessage(msg, opened.data)>>
                                        ELSE <<>>)
                       ELSE /\ r_key' = r_key + 1
                            /\ UNCHANGED <<r_pc, r_msg, r_decrypted_messages>>
    /\ UNCHANGED <<r_encrypted_messages, worldVars, processVars,
                   c_pc, c_data, c_password, c_container, c_result, c_draw,
                   c_damage, storageVars, chatVars, threadVars, cliVars>>

\* receive_messages, line 158: return decrypted_messages.
ReceiveReturn ==
    /\ r_pc = "done"
    /\ r_pc' = "idle"
    /\ ret' = [op |-> "receive_messages", who |-> user_data.username,
               val |-> r_decrypted_messages]
    /\ UNCHANGED <<r_encrypted_messages, r_decrypted_messages, r_msg, r_key,
                   tried, pc, user_data, app_user_data, user_password, supabase,
                   chat_identity_private_key, chat_partner, keygen, worldVars,
                   c_pc, c_data, c_password, c_container, c_result, c_draw,
                   c_damage, storageVars, chatVars, threadVars, cliVars>>

\* 'quit' typed between two calls.
FallbackQuit == r_pc = "idle" /\ ChatQuit

FallbackSend == PeerSendTo(InboxTargets, MaxFallbackRows, 0)

FallbackNext ==
    \/ InboxRegister
    \/ InboxLogin
    \/ InboxInitializeManagers
    \/ InboxRotateKey
    \/ Logout
    \/ StartChat
    \/ FallbackQuit
    \/ FallbackSend
    \/ ReceiveFetch
    \/ ReceiveTryCurrent
    \/ ReceiveTryOld
    \/ ReceiveReturn

SpecFallback == SpecInit /\ [][FallbackNext]_vars

(***************************************************************************)
(* SpecKeys: KeyRotationManager used on its own.  The record comes from    *)
(* register_user or login_user; the manager is built with a                *)
(* DatabaseManager, with or without a ChatManager before it, and its two   *)
(* methods are called while the days pass.                                 *)
(***************************************************************************)
\* Last day the clock reaches.
MaxDay == 2

\* A KeyRotationManager built on the record with a DatabaseManager and no
\* ChatManager: the namespace entry exists only if the connection was made.
KeyManagerOnly(connecteds) ==
    /\ pc = "loggedin"
    /\ \E connected \in connecteds :
          LET ud1 == IF connected THEN ConnectProfile(user_data) ELSE user_data
          IN  /\ supabase' = connected
              /\ directory' = IF connected
                               THEN RegisterUserKey(directory, ud1.username,
                                                    ud1.identity_public_key)
                               ELSE directory
              /\ user_data' = ud1
              /\ retired_seen' = Seen(ud1, retired_seen)
              /\ current_seen' = SeenCurrent(ud1, current_seen)
    /\ pc' = "menu"
    /\ ret' = NoReturn
    /\ UNCHANGED <<app_user_data, user_password, chat_identity_private_key,
                   chat_partner, keygen, profile_file, relay, sealed_log, now,
                   codecVars>>

\* KeyRotationManager.check_key_rotation_needed()
CheckKeyRotationNeeded ==
    /\ pc = "menu"
    /\ ret' = [op |-> "check_key_rotation_needed",
               val |-> check_key_rotation_needed(user_data, now)]
    /\ UNCHANGED <<pc, user_data, app_user_data, user_password, supabase,
                   chat_identity_private_key, chat_partner, keygen,
                   worldVars, codecVars>>

\* Midnight passes.
Tick ==
    /\ now.day < MaxDay
    /\ now' = [now EXCEPT !.day = @ + 1]
    /\ ret' = NoReturn
    /\ UNCHANGED <<pc, user_data, app_user_data, user_password, supabase,
                   chat_identity_private_key, chat_partner, keygen,
                   profile_file, directory, relay, sealed_log, retired_seen,
                   current_seen, codecVars>>

KeysRegister == RegisterWith({RegisterPassword}, {"ok"})

KeysLogin == LoginWith({RegisterPassword})

KeysBuild == KeyManagerOnly(BOOLEAN)

KeysInitializeManagers == InitializeManagersWith(BOOLEAN, {TRUE})

KeysRotateKey == RotateKeyWith(BOOLEAN, {RegisterPassword}, {"ok"})

KeysNext ==
    \/ KeysRegister
    \/ KeysLogin
    \/ KeysBuild
    \/ KeysInitializeManagers
    \/ KeysRotateKey
    \/ CheckKeyRotationNeeded
    \/ Tick
    \/ Logout

SpecKeys == SpecInit /\ [][KeysNext]_vars

(***************************************************************************)
(* MessageStorage (src/message_storage.py): alice's local message history, *)
(* kept in memory and rewritten to its container on every add_message.     *)
(***************************************************************************)
\* Messages the history may hold.
MaxStored == 3

\* Largest limit asked of get_chat_messages.
MaxLimit == 2

StoragePartners == {"bob", "carol"}

\* What get_timestamp() returns at the calls of add_message; the local clock
\* may have been set back between two calls.
StorageTimes == {[day |-> 1, sec |-> 0], [day |-> 2, sec |-> 0]}

NameCode(u) == CASE u = "alice" -> 1 [] u = "bob" -> 2 [] u = "carol" -> 3

NameOfCode(c) == CASE c = 1 -> "alice" [] c = 2 -> "bob" [] c = 3 -> "carol"

\* The dict add_message builds.
StoredMessage(sender, recipient, content, message_type, t) ==
    [sender |-> sender, recipient |-> recipient, content |-> content,
     type |-> message_type, timestamp |-> get_timestamp(t)]

\* json.dumps(self.messages, ensure_ascii=False) and json.loads.
JsonMessage(m) ==
    <<NameCode(m.sender), NameCode(m.recipient),
      IF m.type = "sent" THEN 1 ELSE 0>>
    \o JsonString(m.content) \o JsonString(m.timestamp)

RECURSIVE JsonMessageList(_)
JsonMessageList(ms) ==
    IF ms = <<>> THEN <<>> ELSE JsonMessage(Head(ms)) \o JsonMessageList(Tail(ms))

JsonDumpsMessages(ms) == <<Len(ms)>> \o JsonMessageList(ms)

RECURSIVE ParseMessageList(_, _)
ParseMessageList(str, n) ==
    IF n = 0 THEN <<>>
    ELSE LET content == ParseString(SliceFrom(str, 3))
             timestamp == ParseString(content.rest)
         IN  <<[sender |-> NameOfCode(str[1]), recipient |-> NameOfCode(str[2]),
                content |-> content.v,
                type |-> IF str[3] = 1 THEN "sent" ELSE "received",
                timestamp |-> timestamp.v]>>
             \o ParseMessageList(timestamp.rest, n - 1)

JsonLoadsMessages(str) == ParseMessageList(Tail(str), str[1])

\* _load_messages: the list read from the storage file, [] when there is no
\* file or it does not decrypt.
LoadMessages(file, password) ==
    IF file = NoFile THEN <<>>
    ELSE LET decrypted_data == decrypt_data(file[1], password)
         IN  IF ~decrypted_data.ok THEN <<>>
             ELSE JsonLoadsMessages(Utf8Decode(decrypted_data.data))

\* a < b for two Python strings (code point by code point).
RECURSIVE StrLess(_, _, _)
StrLess(a, b, i) ==
    IF i > Len(a) THEN i <= Len(b)
    ELSE IF i > Len(b) THEN FALSE
    ELSE IF a[i] # b[i] THEN a[i] < b[i]
    ELSE StrLess(a, b, i + 1)

\* list.sort(key=lambda x: x['timestamp']): stable, ascending.
RECURSIVE InsertByTimestamp(_, _)
InsertByTimestamp(sorted, m) ==
    IF sorted = <<>> THEN <<m>>
    ELSE IF StrLess(m.timestamp, Head(sorted).timestamp, 1) THEN <<m>> \o sorted
    ELSE <<Head(sorted)>> \o InsertByTimestamp(Tail(sorted), m)

RECURSIVE SortByTimestamp(_, _)
SortByTimestamp(ms, n) ==
    IF n = 0 THEN <<>>
    ELSE InsertByTimestamp(SortByTimestamp(ms, n - 1), ms[n])

\* Python slice s[start:] for any integer start (negative counts from the end).
SliceFromIndex(str, start) ==
    IF start < 0 THEN SliceFrom(str, Max(Len(str) + start, 0))
    ELSE SliceFrom(str, start)

\* get_chat_messages(partner_username, limit) of the storage of username.
get_chat_messages(messages, username, partner_username, limit) ==
    LET chat_messages ==
            SelectSeq(messages,
                LAMBDA msg :
                    \/ msg.sender = username /\ msg.recipient = partner_username
                    \/ msg.sender = partner_username /\ msg.recipient = username)
        sorted == SortByTimestamp(chat_messages, Len(chat_messages))
    IN  IF Len(sorted) > limit THEN SliceFromIndex(sorted, 0 - limit) ELSE sorted

\* MessageStorage(username, password): initialize_managers builds it, which
\* loads the file.
StorageOpenWith(passwords) ==
    /\ s_pc = "closed"
    /\ s_pc' = "open"
    /\ \E password \in passwords :
          /\ s_password' = password
          /\ s_messages' = LoadMessages(s_file, password)
    /\ s_ret' = NoReturn
    /\ UNCHANGED <<s_file, c_pc, c_data, c_password, c_container, c_result,
                   c_draw, c_damage, worldVars, processVars, extraVars>>

\* add_message: a message received from or sent to a partner is appended and
\* the whole list is written to the storage file.
StorageAddWith(partners, times, outcomes, max) ==
    /\ s_pc = "open"
    /\ Len(s_messages) < max
    /\ \E partner \in partners, sent \in BOOLEAN, t \in times,
          salt \in SessionSalts, nonce \in SessionNonces,
          outcome \in outcomes :
          LET message ==
                  StoredMessage(IF sent THEN "alice" ELSE partner,
                                IF sent THEN partner ELSE "alice",
                                MessageText(Len(s_messages) + 1),
                                IF sent THEN "sent" ELSE "received", t)
              messages == Append(s_messages, message)
              encrypted_data ==
                  encrypt_data(Utf8Encode(JsonDumpsMessages(messages)),
                               s_password, salt, nonce, IsoFormat(t))
          IN  /\ s_messages' = messages
              /\ s_file' = WriteFile(s_file, encrypted_data, outcome)
              /\ s_ret' = [op |-> "add_message", val |-> outcome = "ok"]
    /\ UNCHANGED <<s_pc, s_password, c_pc, c_data, c_password, c_container, c_result,
                   c_draw, c_damage, worldVars, processVars, extraVars>>

\* display_chat_screen asks the storage for the history with a partner.
StorageGet ==
    /\ s_pc = "open"
    /\ \E partner \in StoragePartners, limit \in 0..MaxLimit :
          s_ret' = [op |-> "get_chat_messages", partner |-> partner,
                    limit |-> limit,
                    val |-> get_chat_messages(s_messages, "alice", partner, limit)]
    /\ UNCHANGED <<s_pc, s_messages, s_file, s_password, c_pc, c_data, c_password,
                   c_container, c_result, c_draw, c_damage, worldVars,
                   processVars, extraVars>>

\* logout: the storage object is dropped; the file stays.
StorageClose ==
    /\ s_pc = "open"
    /\ s_pc' = "closed"
    /\ s_messages' = <<>>
    /\ s_password' = Unset
    /\ s_ret' = NoReturn
    /\ UNCHANGED <<s_file, c_pc, c_data, c_password, c_container, c_result,
                   c_draw, c_damage, worldVars, processVars, extraVars>>

\* The storage built with the password the file was written with.
StorageOpen == StorageOpenWith({RegisterPassword})

StorageAdd ==
    StorageAddWith(StoragePartners, StorageTimes, WriteOutcomes, MaxStored)

StorageNext == StorageOpen \/ StorageAdd \/ StorageGet \/ StorageClose

SpecStorage == SpecInit /\ [][StorageNext]_vars

(***************************************************************************)
(* SpecChat: the session without faults together with its MessageStorage   *)
(* and chat_interface's get_new_messages (src/main.py, lines 341-376),     *)
(* which the poller runs every three seconds and 'refresh' runs on demand.  *)
(***************************************************************************)
MaxChatRows == 2

\* Largest number of messages the storage is let to hold.
MaxChatStored == 3

\* Seconds of the clock.
MaxSec == 1

\* The entry get_new_messages appends to new_messages.
NewMessage(msg) ==
    [sender |-> msg.sender_username, content |-> msg.decrypted_content,
     timestamp |-> msg.timestamp, type |-> "received", id |-> MsgId(msg)]

\* The for loop of get_new_messages over partner_messages[i..]: the set of
\* displayed ids, the storage's list and new_messages when it ends.
RECURSIVE GetNewFrom(_, _, _, _, _, _)
GetNewFrom(partner_messages, i, displayed, messages, username, t) ==
    IF i > Len(partner_messages)
    THEN [displayed |-> displayed, messages |-> messages, new_messages |-> <<>>]
    ELSE LET msg == partner_messages[i]
         IN  IF MsgId(msg) \in displayed
             THEN GetNewFrom(partner_messages, i + 1, displayed, messages,
                             username, t)
             ELSE LET rest ==
                        GetNewFrom(partner_messages, i + 1,
                                   displayed \cup {MsgId(msg)},
                                   Append(messages,
                                          StoredMessage(msg.sender_username,
                                                        username,
                                                        msg.decrypted_content,
                                                        "received", t)),
                                   username, t)
                  IN  [rest EXCEPT !.new_messages = <<NewMessage(msg)>> \o @]

\* initialize_managers, lines 79-102, with the MessageStorage it builds.
ChatInitializeManagers ==
    /\ InitializeManagersOf({TRUE}, {TRUE})
    /\ s_pc' = "open"
    /\ s_password' = user_password
    /\ s_messages' = LoadMessages(s_file, user_password)
    /\ s_ret' = NoReturn
    /\ UNCHANGED <<s_file, c_pc, c_data, c_password, c_container, c_result,
                   c_draw, c_damage, extraVars>>

\* logout(): the managers and the storage object are dropped.
ChatLogout ==
    /\ pc = "menu"
    /\ ProcessExit
    /\ s_pc' = "closed"
    /\ s_messages' = <<>>
    /\ s_password' = Unset
    /\ s_ret' = NoReturn
    /\ UNCHANGED <<keygen, worldVars, s_file, c_pc, c_data, c_password,
                   c_container, c_result, c_draw, c_damage, extraVars>>

\* 'quit': chat_interface returns and its locals are gone.
ChatLeave ==
    /\ pc = "chat"
    /\ pc' = "menu"
    /\ ret' = NoReturn
    /\ displayed_message_ids' = {}
    /\ displayed_log' = <<>>
    /\ UNCHANGED <<user_data, app_user_data, user_password, supabase,
                   chat_identity_private_key, chat_partner, keygen, worldVars,
                   c_pc, c_data, c_password, c_container, c_result, c_draw,
                   c_damage, storageVars, receiveVars, threadVars, cliVars>>

\* get_new_messages(), run by the poller or by 'refresh'.
GetNewMessages ==
    /\ pc = "chat"
    /\ s_pc = "open"
    /\ LET db_messages ==
               receive_messages(user_data.username, chat_identity_private_key,
                                user_data, directory, relay)
           partner_messages ==
               SelectSeq(db_messages,
                         LAMBDA msg : msg.sender_username = chat_partner.username)
           got == GetNewFrom(partner_messages, 1, displayed_message_ids,
                             s_messages, AppUserData.username, now)
       IN  /\ Len(got.messages) <= MaxChatStored
           /\ displayed_message_ids' = got.displayed
           /\ displayed_log' = displayed_log \o got.new_messages
           /\ s_messages' = got.messages
           /\ \E salt \in SessionSalts, nonce \in SessionNonces :
                 s_file' = IF got.messages = s_messages THEN s_file
                           ELSE File(encrypt_data(
                                        Utf8Encode(JsonDumpsMessages(got.messages)),
                                        s_password, salt, nonce, IsoFormat(now)))
           /\ s_ret' = IF got.messages = s_messages THEN s_ret
                       ELSE [op |-> "add_message", val |-> TRUE]
           /\ ret' = [op |-> "get_new_messages", received |-> partner_messages,
                      val |-> got.new_messages]
    /\ UNCHANGED <<pc, user_data, app_user_data, user_password, supabase,
                   chat_identity_private_key, chat_partner, keygen, worldVars,
                   s_pc, s_password, c_pc, c_data, c_password, c_container,
                   c_result, c_draw, c_damage, receiveVars, threadVars, cliVars>>

\* bob sends to alice.
ChatPeerSend == PeerSendTo(DirectoryTargets, MaxChatRows, 0)

\* A second passes.
SecondPasses ==
    /\ now.sec < MaxSec
    /\ now' = [now EXCEPT !.sec = @ + 1]
    /\ UNCHANGED <<pc, user_data, app_user_data, user_password, supabase,
                   chat_identity_private_key, chat_partner, keygen, ret,
                   profile_file, directory, relay, sealed_log, retired_seen,
                   current_seen, codecVars>>

ChatNext ==
    \/ InboxRegister
    \/ InboxLogin
    \/ ChatInitializeManagers
    \/ ChatLogout
    \/ StartChat
    \/ ChatLeave
    \/ GetNewMessages
    \/ ChatPeerSend
    \/ SecondPasses

SpecChat == SpecInit /\ [][ChatNext]_vars

(***************************************************************************)
(* SpecThreads: the poller thread (main.py, lines 425-455, through          *)
(* get_new_messages) and the foreground thread (lines 506-525) inside      *)
(* MessageStorage.add_message on the same object, statement by statement.  *)
(* Nothing in add_message or _save_messages takes a lock.                  *)
(***************************************************************************)
MaxThreadStored == 3

\* Two handles opened with 'wb' each write from offset 0: data written over
\* what the file holds.
WriteOver(old, data) ==
    IF Len(old) > Len(data) THEN data \o SliceFrom(old, Len(data)) ELSE data

\* add_message, lines 82-92: the message is built and appended.
ThreadAppend(th) ==
    /\ s_pc = "open"
    /\ t_pc[th] = "idle"
    /\ Len(s_messages) < MaxThreadStored
    /\ s_messages' =
          Append(s_messages,
                 IF th = "poller"
                 THEN StoredMessage("bob", "alice",
                                    MessageText(Len(s_messages) + 1), "received", now)
                 ELSE StoredMessage("alice", "bob",
                                    MessageText(Len(s_messages) + 1), "sent", now))
    /\ t_pc' = [t_pc EXCEPT ![th] = "appended"]
    /\ UNCHANGED <<s_pc, s_file, s_ret, s_password, t_data, c_pc, c_data,
                   c_password, c_container, c_result, c_draw, c_damage,
                   worldVars, processVars, receiveVars, chatVars, cliVars>>

\* _save_messages, lines 57-60: the list as it is now is serialised and
\* encrypted.
ThreadDump(th) ==
    /\ t_pc[th] = "appended"
    /\ \E salt \in SessionSalts, nonce \in SessionNonces :
          t_data' = [t_data EXCEPT ![th] =
                        encrypt_data(Utf8Encode(JsonDumpsMessages(s_messages)),
                                     s_password, salt, nonce, IsoFormat(now))]
    /\ t_pc' = [t_pc EXCEPT ![th] = "dumped"]
    /\ UNCHANGED <<storageVars, c_pc, c_data, c_password, c_container, c_result,
                   c_draw, c_damage, worldVars, processVars, receiveVars,
                   chatVars, cliVars>>

\* _save_messages, line 63: open(self.storage_file, 'wb') truncates the file.
ThreadOpenFile(th) ==
    /\ t_pc[th] = "dumped"
    /\ s_file' = File(<<>>)
    /\ t_pc' = [t_pc EXCEPT ![th] = "opened"]
    /\ UNCHANGED <<s_pc, s_messages, s_ret, s_password, t_data, c_pc, c_data,
                   c_password, c_container, c_result, c_draw, c_damage,
                   worldVars, processVars, receiveVars, chatVars, cliVars>>

\* _save_messages, lines 64-66, and add_message, line 98: the bytes are
\* written, the file is closed and True is returned.
ThreadWrite(th) ==
    /\ t_pc[th] = "opened"
    /\ s_file' = File(WriteOver(s_file[1], t_data[th]))
    /\ s_ret' = [op |-> "add_message", val |-> TRUE]
    /\ t_pc' = [t_pc EXCEPT ![th] = "returned"]
    /\ UNCHANGED <<s_pc, s_messages, s_password, t_data, c_pc, c_data,
                   c_password, c_container, c_result, c_draw, c_damage,
                   worldVars, processVars, receiveVars, chatVars, cliVars>>

\* The thread goes on to whatever it does next.
ThreadGoOn(th) ==
    /\ t_pc[th] = "returned"
    /\ t_pc' = [t_pc EXCEPT ![th] = "idle"]
    /\ t_data' = [t_data EXCEPT ![th] = <<>>]
    /\ UNCHANGED <<storageVars, c_pc, c_data, c_password, c_container, c_result,
                   c_draw, c_damage, worldVars, processVars, receiveVars,
                   chatVars, cliVars>>

ThreadsAppend == \E th \in Threads : ThreadAppend(th)

ThreadsDump == \E th \in Threads : ThreadDump(th)

ThreadsOpenFile == \E th \in Threads : ThreadOpenFile(th)

ThreadsWrite == \E th \in Threads : ThreadWrite(th)

ThreadsGoOn == \E th \in Threads : ThreadGoOn(th)

ThreadsNext ==
    \/ StorageOpen
    \/ ThreadsAppend
    \/ ThreadsDump
    \/ ThreadsOpenFile
    \/ ThreadsWrite
    \/ ThreadsGoOn

SpecThreads == SpecInit /\ [][ThreadsNext]_vars

(***************************************************************************)
(* SpecCli: the command "encrypt" of flightcodev2CLI.main (lines 801-848),  *)
(* run again and again in a directory in which the user also creates files. *)
(***************************************************************************)
\* Longest file the command is given.
MaxCliLen == 2

\* What the user puts into a new file.
CliContents == {<<65>>, <<0, 255>>}

\* No -o option on the command line.
NoArg == "none"

\* f"{args.file}{FILE_EXTENSION}", for the one path whose default is a path
\* of the model.
DefaultOutput(file) == IF file = "a" THEN "a.hee" ELSE file

\* FileHandler.secure_delete(file_path, passes): nothing without the file;
\* otherwise the file is overwritten passes times and removed.
secure_delete(files, file_path, passes) ==
    IF files[file_path] = NoFile THEN files
    ELSE [files EXCEPT ![file_path] = NoFile]

\* The user creates a file.
CliCreateFile ==
    /\ \E path \in Paths, data \in CliContents :
          /\ fs[path] = NoFile
          /\ fs' = [fs EXCEPT ![path] = File(data)]
    /\ cli_ret' = NoReturn
    /\ UNCHANGED <<c_pc, c_data, c_password, c_container, c_result, c_draw,
                   c_damage, storageVars, worldVars, processVars, receiveVars,
                   chatVars, threadVars>>

\* main, command 'encrypt'.  answer: the reply to "Overwrite? (y/n)", asked
\* without --force only; outcome: how writing the output went; shredded:
\* secure_delete, when called, raised nothing.
CliEncrypt ==
    /\ \E file \in Paths, output \in Paths \cup {NoArg}, force \in BOOLEAN,
          answer \in BOOLEAN, password \in SessionPasswords,
          confirm_password \in SessionPasswords, delete \in BOOLEAN,
          passes \in {3}, outcome \in WriteOutcomes, shredded \in BOOLEAN,
          salt \in SessionSalts, nonce \in SessionNonces :
          LET output_path == IF output # NoArg THEN output ELSE DefaultOutput(file)
              given == [op |-> "encrypt", file |-> file, output |-> output_path,
                        secure_delete |-> delete, password |-> password]
              file_data == fs[file][1]
              encrypted_data == encrypt_data(file_data, password, salt, nonce,
                                             IsoFormat(now))
              written == [fs EXCEPT ![output_path] =
                                       WriteFile(@, encrypted_data, outcome)]
          IN  /\ output = NoArg => file = "a"
              /\ force => answer
              /\ ~delete => shredded
              /\ fs[file] # NoFile => Len(fs[file][1]) <= MaxCliLen
              /\ IF fs[file] = NoFile
                 THEN /\ cli_ret' = given @@ [code |-> 1]
                      /\ fs' = fs
                 ELSE IF fs[output_path] # NoFile /\ ~force /\ ~answer
                 THEN /\ cli_ret' = given @@ [code |-> 1]
                      /\ fs' = fs
                 ELSE IF password # confirm_password
                 THEN /\ cli_ret' = given @@ [code |-> 1]
                      /\ fs' = fs
                 ELSE IF outcome # "ok"
                 THEN /\ cli_ret' = given @@ [code |-> 1]
                      /\ fs' = written
                 ELSE IF delete /\ ~shredded
                 THEN /\ cli_ret' = given @@ [code |-> 1]
                      /\ fs' = written
                 ELSE /\ cli_ret' = given @@ [code |-> 0, file_data |-> file_data]
                      /\ fs' = IF delete THEN secure_delete(written, file, passes)
                               ELSE written
    /\ UNCHANGED <<c_pc, c_data, c_password, c_container, c_result, c_draw,
                   c_damage, storageVars, worldVars, processVars, receiveVars,
                   chatVars, threadVars>>

CliNext == CliCreateFile \/ CliEncrypt

SpecCli == SpecInit /\ [][CliNext]_vars

(***************************************************************************)
(* SpecReopen: the storage built again and again, with the password of the *)
(* session that builds it (the profile password, which a rotation's save   *)
(* prompt can change), over a file earlier sessions wrote.                 *)
(***************************************************************************)
MaxReopened == 2

ReopenOpen == StorageOpenWith(SessionPasswords)

ReopenAdd ==
    StorageAddWith({"bob"}, {[day |-> 1, sec |-> 0]}, WriteOutcomes, MaxReopened)

ReopenNext == ReopenOpen \/ ReopenAdd \/ StorageClose

SpecReopen == SpecInit /\ [][ReopenNext]_vars

(***************************************************************************)
(* Properties                                                              *)
(***************************************************************************)
\* C1: decrypt_data(encrypt_data(p, w), w) returns exactly p, whatever salt,
\* nonce and timestamp encrypt_data drew.
C1_RoundTrip ==
    c_pc = "decrypted" => (c_result.ok /\ c_result.data = c_data)

C1_Witness ==
    /\ c_pc = "decrypted"
    /\ Len(c_data) = MaxDataLen
    /\ c_result.ok
    /\ c_result.data = c_data
    /\ c_container # c_data

\* The private key the chat manager of who opens with.
ReceiverPrivateKey(who) ==
    IF who = "alice" THEN chat_identity_private_key ELSE BobPrivateKey

\* The directory shows, for the sender of relay row i, the public key of the
\* private key the row was sealed with.
SenderPublished(i) ==
    directory[relay[i].sender_username] =
        Base64Encode(PublicKeyOf(sealed_log[i].private_key))

\* Relay row i was sealed for who with identity keys on both sides.
SealedForIdentity(i, who) ==
    /\ relay[i].recipient_username = who
    /\ sealed_log[i].public_key = PublicKeyOf(ReceiverPrivateKey(who))
    /\ SenderPublished(i)

\* The list receive_messages returned holds the text sealed in relay row i.
Delivered(i, messages) ==
    \E j \in 1..Len(messages) :
        /\ messages[j].sender_username = relay[i].sender_username
        /\ messages[j].decrypted_content = sealed_log[i].text

ReceivedBy(who) == ret.op = "receive_messages" /\ ret.who = who

\* C2: a message sealed by A with A's identity private key against B's
\* identity public key is opened by B's receive_messages, with B's identity
\* private key and A's public key as the directory holds it, to exactly the
\* text A sent.
C2_SealRoundTrip ==
    ret.op = "receive_messages" =>
        \A i \in 1..Len(relay) :
            SealedForIdentity(i, ret.who) => Delivered(i, ret.val)

C2_Witness ==
    /\ ReceivedBy("alice")
    /\ \E i \in 1..Len(relay) :
          /\ SealedForIdentity(i, "alice")
          /\ sealed_log[i].text[1] = 233
          /\ Delivered(i, ret.val)

NamespaceOf(ud) == ud.db_profiles[SUPABASE_URL]

\* The private key of the k-th retired keypair of ud.
RetiredPrivateKey(ud, k) == Base64Decode(Retired(ud)[k].private_key)

\* Relay row i is addressed to alice and was sealed against the public key of
\* her k-th retired keypair.
SealedForRetired(i, k) ==
    /\ relay[i].recipient_username = "alice"
    /\ sealed_log[i].public_key = PublicKeyOf(RetiredPrivateKey(user_data, k))
    /\ SenderPublished(i)

\* C3: a message sealed against the public key of a retired keypair (K1 of
\* retired = [K1, K2], current K3) does not open in the first attempt, nor
\* under the current keypair, and is opened by the fallback search over the
\* retired keys, so that receive_messages returns its text.
C3_Fallback ==
    ReceivedBy("alice") =>
        \A i \in 1..Len(relay), k \in 1..Len(Retired(user_data)) :
            SealedForRetired(i, k) =>
                LET sender_public_key_str == directory[relay[i].sender_username]
                    sender_public_key == Base64Decode(sender_public_key_str)
                    current == Base64Decode(
                        NamespaceOf(user_data).current_keypair.private_key)
                IN  /\ ~OpenMessage(chat_identity_private_key, sender_public_key,
                                    relay[i].ciphertext).ok
                    /\ ~OpenMessage(current, sender_public_key,
                                    relay[i].ciphertext).ok
                    /\ TryDecryptWithOldKeys(user_data, relay[i].ciphertext,
                                             sender_public_key_str)
                           = Return(sealed_log[i].text)
                    /\ Delivered(i, ret.val)

C3_Witness ==
    /\ ReceivedBy("alice")
    /\ Len(Retired(user_data)) = 2
    /\ \E i \in 1..Len(relay) :
          /\ SealedForRetired(i, 1)
          /\ Delivered(i, ret.val)

\* The identity private key of the loaded record.
IdentityPrivateKey(ud) == Base64Decode(ud.identity_private_key)

\* Relay row i was sealed by bob against the identity public key alice had
\* published, before the rotation that generated the identity keypair her
\* record holds now (the n-th key drawn is PrivateKeyGenerate(n)).
SealedBeforeRotation(i) ==
    /\ relay[i].recipient_username = "alice"
    /\ relay[i].sender_username = "bob"
    /\ SenderPublished(i)
    /\ sealed_log[i].public_key # PublicKeyOf(IdentityPrivateKey(user_data))
    /\ \E n \in sealed_log[i].draws + 1 .. keygen :
          IdentityPrivateKey(user_data) = PrivateKeyGenerate(n)

\* C4: a message bob sealed against alice's identity public key as published
\* before her rotation is still decrypted by receive_messages after the
\* rotation, also after she has logged out and logged in again.
C4_RotationKeepsMessage ==
    ReceivedBy("alice") =>
        \A i \in 1..Len(relay) :
            SealedBeforeRotation(i) => Delivered(i, ret.val)

\* The public keys of the keypairs a namespace entry holds.
PublicKeysOf(db_profile) ==
    {db_profile.old_keys[k].public_key : k \in 1..Len(db_profile.old_keys)}
    \cup (IF db_profile.current_keypair # None
          THEN {db_profile.current_keypair.public_key}
          ELSE {})

Occurrences(s, x) == Cardinality({k \in 1..Len(s) : s[k] = x})

\* C5: every rotate_key on a namespace that had a current keypair leaves that
\* keypair exactly once in the retired list, as its last element, and
\* installs a current keypair whose public key differs from the public key of
\* every keypair the namespace held before.
C5_RotationMonotonic ==
    [][(/\ ret'.op = "rotate_key"
        /\ keygen' # keygen
        /\ NamespaceOf(user_data).current_keypair # None)
       => LET before == NamespaceOf(user_data)
              after == NamespaceOf(user_data')
          IN  /\ after.old_keys # <<>>
              /\ after.old_keys[Len(after.old_keys)] = before.current_keypair
              /\ Occurrences(after.old_keys, before.current_keypair) = 1
              /\ after.current_keypair # None
              /\ after.current_keypair.public_key \notin PublicKeysOf(before)
      ]_vars

C5_Witness ==
    /\ ret.op = "rotate_key"
    /\ Len(Retired(user_data)) = 2
    /\ Occurrences(Retired(user_data), Retired(user_data)[2]) = 1
    /\ NamespaceOf(user_data).current_keypair.public_key
           \notin {Retired(user_data)[1].public_key, Retired(user_data)[2].public_key}

IsPrefix(s, t) == Len(s) <= Len(t) /\ SubSeq(t, 1, Len(s)) = s

NoDuplicates(s) == \A a, b \in 1..Len(s) : s[a] = s[b] => a = b

\* C6: whatever the operation (namespace initialisation, send, receive,
\* rotation that succeeds or fails, save and reload of the profile), the
\* retired list alice's record holds has no duplicates, extends the list the
\* record held before, and changes only in rotate_key.
C6_RetiredAppendOnly ==
    [][/\ IsPrefix(retired_seen, retired_seen')
       /\ NoDuplicates(retired_seen')
       /\ (retired_seen' # retired_seen => ret'.op = "rotate_key")
      ]_vars

\* C7 below: relay row i opens under the key the chat manager holds or under
\* one of the retired keys.
OpensForAlice(i) ==
    /\ SenderPublished(i)
    /\ sealed_log[i].public_key \in
           {PublicKeyOf(chat_identity_private_key)}
           \cup {PublicKeyOf(RetiredPrivateKey(user_data, k)) :
                    k \in 1..Len(Retired(user_data))}

\* The rows i.. of the relay that are addressed to alice and open, with the
\* text that was sealed in them, in relay order.
RECURSIVE ExpectedFrom(_)
ExpectedFrom(i) ==
    IF i > Len(relay) THEN <<>>
    ELSE (IF relay[i].recipient_username = "alice" /\ OpensForAlice(i)
          THEN <<DecryptedMessage(relay[i], sealed_log[i].text)>>
          ELSE <<>>)
         \o ExpectedFrom(i + 1)

\* C7: receive_messages leaves out a message that opens under neither the key
\* in use nor any retired key, and returns every other message of the batch,
\* in relay order.
C7_SkipUndecryptable ==
    ReceivedBy("alice") => ret.val = ExpectedFrom(1)

C7_Witness ==
    /\ ReceivedBy("alice")
    /\ Len(relay) = 3
    /\ OpensForAlice(1)
    /\ ~OpensForAlice(2)
    /\ OpensForAlice(3)
    /\ Len(ret.val) = 2
    /\ ret.val[1].decrypted_content = sealed_log[1].text
    /\ ret.val[2].decrypted_content = sealed_log[3].text

\* rotate_key returned after the directory update had failed.
PublishFailure(r) == r.op = "rotate_key" /\ r.printed = PublishFailed

\* C8: when the directory write fails, rotate_key returns False with the
\* record in memory advanced (previous current keypair appended to the retired
\* list, a new current keypair, a new identity keypair), and no later step of
\* the session takes the record back.
C8_NoRollback ==
    [][/\ PublishFailure(ret') =>
             LET before == NamespaceOf(user_data)
                 after == NamespaceOf(user_data')
             IN  /\ ret'.val = FALSE
                 /\ after.old_keys = Append(before.old_keys, before.current_keypair)
                 /\ after.current_keypair # None
                 /\ after.current_keypair.public_key \notin PublicKeysOf(before)
                 /\ user_data'.identity_private_key # user_data.identity_private_key
                 /\ user_data'.identity_public_key =
                        Base64Encode(PublicKeyOf(IdentityPrivateKey(user_data')))
                 /\ user_data'.identity_private_key # after.current_keypair.private_key
       /\ (/\ pc \in {"menu", "chat"}
           /\ pc' \in {"menu", "chat"}
           /\ ret'.op # "rotate_key") => user_data' = user_data
      ]_vars

C8_Witness ==
    /\ PublishFailure(ret)
    /\ supabase
    /\ ~ret.val
    /\ Len(Retired(user_data)) >= 1
    /\ IdentityPrivateKey(user_data) # chat_identity_private_key
    /\ directory["alice"] # user_data.identity_public_key

\* Some password of the session opens the profile on disk, and the record in
\* it holds the identity keypair and the namespace keypairs of ud.
DiskHolds(ud) ==
    \E password \in SessionPasswords :
        LET loaded == LoadProfile(profile_file, password)
        IN  /\ loaded # None
            /\ loaded.identity_private_key = ud.identity_private_key
            /\ HasNamespace(loaded)
            /\ NamespaceOf(loaded) = NamespaceOf(ud)

\* C9: after a rotation whose directory publication failed, the caller has
\* written the rotated record to the profile container: the profile on disk
\* holds the rotated keys.
C9_RotatedRecordPersisted ==
    PublishFailure(ret) => DiskHolds(user_data)

\* C10: whenever rotate_key returns True, the identity keypair of the record
\* is the one just generated and the directory row of the user holds its
\* public key.
C10_RotationRepublishes ==
    (ret.op = "rotate_key" /\ ret.val) =>
        /\ IdentityPrivateKey(user_data) = PrivateKeyGenerate(keygen)
        /\ user_data.identity_public_key =
               Base64Encode(PublicKeyOf(IdentityPrivateKey(user_data)))
        /\ directory[user_data.username] = user_data.identity_public_key

\* C12: when one bit of the container's tag, associated data or ciphertext
\* has been inverted, or the password is not the one used to encrypt,
\* decrypt_data raises InvalidTag and returns no plaintext.
C12_TamperDetected ==
    (c_pc = "tried" /\ c_damage \in TamperedFields \cup {"password"}) =>
        c_result = Raise("InvalidTag")

C12_Witness ==
    /\ c_pc = "tried"
    /\ c_damage = "associated_data"
    /\ Len(c_data) = MaxDataLen
    /\ c_result = Raise("InvalidTag")

\* C13: decrypt_data raises the format error (ValueError), not the
\* authentication error, for every input shorter than 46 bytes and for every
\* input whose assoc_len field declares more bytes than remain after the 46
\* fixed bytes.
C13_MalformedIsFormatError ==
    (c_pc = "tried" /\ c_damage \in {"truncated", "assoc_len"}) =>
        c_result = Raise("ValueError")

\* C16: the output of encrypt_data is salt(16), nonce(12), tag(16), the
\* length of the associated data as two bytes big-endian, the associated
\* data, the ciphertext; its length is 46 + len(associated data) +
\* len(plaintext); decrypt_data takes its fields from these offsets.
C16_ContainerLayout ==
    c_pc = "encrypted" =>
        LET aad == MetadataPrefix \o c_draw.stamp
            n == Len(aad)
            key == derive_key(c_password, c_draw.salt)
            ciphertext == SubSeq(c_container, 47 + n, Len(c_container))
        IN  /\ Len(c_container) = 46 + n + Len(c_data)
            /\ SubSeq(c_container, 1, 16) = c_draw.salt
            /\ SubSeq(c_container, 17, 28) = c_draw.nonce
            /\ SubSeq(c_container, 29, 44)
                   = GcmTag(key, c_draw.nonce, aad, ciphertext)
            /\ c_container[45] * 256 + c_container[46] = n
            /\ SubSeq(c_container, 47, 46 + n) = aad
            /\ Len(ciphertext) = Len(c_data)
            /\ GcmDecryptUpdate(key, c_draw.nonce, ciphertext) = c_data
            /\ ExtractComponents(c_container) =
                   [salt |-> SubSeq(c_container, 1, 16),
                    nonce |-> SubSeq(c_container, 17, 28),
                    tag |-> SubSeq(c_container, 29, 44),
                    metadata_length |-> n,
                    metadata |-> SubSeq(c_container, 47, 46 + n),
                    ciphertext |-> ciphertext]

C16_Witness ==
    /\ c_pc = "encrypted"
    /\ Len(c_data) = MaxDataLen
    /\ Len(c_draw.stamp) = 4
    /\ Len(c_container) = 46 + Len(MetadataPrefix) + 4 + MaxDataLen

\* The profile path holds a complete container: one that decrypt_data opens
\* under a password of the session.
CompleteContainer(file) ==
    /\ file # NoFile
    /\ \E password \in SessionPasswords : decrypt_data(file[1], password).ok

\* C11: every write of the profile container, also one that fails part way,
\* leaves the file with its complete previous content or with the complete
\* new content, never empty or truncated.
C11_AtomicWrite ==
    [][profile_file' = profile_file \/ CompleteContainer(profile_file')]_vars

\* The step is initialize_managers building the managers (ChatManager's
\* constructor runs _initialize_chat_keypair).
ManagersBuilt == pc = "loggedin" /\ pc' = "menu" /\ chat_identity_private_key' # Unset

\* The record _initialize_chat_keypair found: the loaded record, with the
\* namespace entry DatabaseManager stored when it connected.
RecordBeforeChatKeypair == IF supabase' THEN ConnectProfile(user_data) ELSE user_data

\* C14: _initialize_chat_keypair on a record without the namespace creates
\* the entry with a fresh current keypair and an empty retired list; on a
\* namespace whose current is unset it installs a fresh current and leaves
\* retired alone; on a namespace with a current keypair it changes nothing;
\* applying it again to its result changes nothing.
C14_EnsureNamespace ==
    [][ManagersBuilt =>
        LET before == RecordBeforeChatKeypair
            fresh == KeypairEntry(PrivateKeyGenerate(keygen + 1), get_timestamp(now))
            after == NamespaceOf(user_data')
        IN  /\ HasNamespace(user_data')
            /\ user_data' = [before EXCEPT !.db_profiles =
                                (SUPABASE_URL :> after) @@ before.db_profiles]
            /\ ~HasNamespace(before) =>
                   /\ after = [current_keypair |-> fresh, old_keys |-> <<>>]
                   /\ keygen' = keygen + 1
            /\ (HasNamespace(before) /\ NamespaceOf(before).current_keypair = None) =>
                   /\ after.current_keypair = fresh
                   /\ after.old_keys = NamespaceOf(before).old_keys
                   /\ keygen' = keygen + 1
            /\ (HasNamespace(before) /\ NamespaceOf(before).current_keypair # None) =>
                   /\ user_data' = before
                   /\ keygen' = keygen
            /\ InitializeChatKeypair(user_data', PrivateKeyGenerate(keygen' + 1), now)
                   = user_data'
            /\ ~ChatKeypairNeeded(user_data')]_vars

\* The managers were built on a record loaded with a rotated namespace (a
\* current keypair and a retired one): the chat manager holds the identity
\* key of the loaded record, so it was built after the rotation.
C14_Witness ==
    /\ pc = "menu"
    /\ ret = NoReturn
    /\ Len(Retired(user_data)) >= 1
    /\ NamespaceOf(user_data).current_keypair # None
    /\ chat_identity_private_key = IdentityPrivateKey(user_data)

\* C17: rotate_key returns True only when all three steps are complete: the
\* record in memory holds the rotated keys, the directory holds the new
\* identity public key, and the profile container holds the rotated record.
C17_NoPartialSuccess ==
    (ret.op = "rotate_key" /\ ret.val) =>
        /\ IdentityPrivateKey(user_data) = PrivateKeyGenerate(keygen)
        /\ NamespaceOf(user_data).current_keypair.private_key
               = Base64Encode(PrivateKeyGenerate(keygen - 1))
        /\ directory[user_data.username] = user_data.identity_public_key
        /\ \E password \in SessionPasswords :
               LoadProfile(profile_file, password) = user_data

\* C18: with no rotation in between, the current keypair the record holds
\* for the namespace once the managers are built in a new session is the
\* keypair it last held in the session before.
C18_CurrentSurvivesRelogin ==
    [][(ManagersBuilt /\ current_seen # None) =>
          NamespaceOf(user_data').current_keypair = current_seen]_vars

\* The record holds a current keypair for the namespace.
HasCurrent(ud) ==
    HasNamespace(ud) /\ NamespaceOf(ud).current_keypair # None

\* The day of a timestamp get_timestamp wrote.
DayOf(timestamp) == timestamp[1] - 48

\* C15: check_key_rotation_needed returns True exactly when the namespace has
\* no current keypair or the current keypair was created on another calendar
\* day than today, and False when it has a current keypair created today.
C15_RotationDue ==
    ret.op = "check_key_rotation_needed" =>
        (ret.val <=>
            \/ ~HasCurrent(user_data)
            \/ DayOf(NamespaceOf(user_data).current_keypair.created_at) # now.day)

\* C15 as amended: check_key_rotation_needed returns True exactly when the
\* record has an entry for the namespace and that entry has no current
\* keypair or one created on another calendar day than today; it returns
\* False for a current keypair created today and for a namespace without an
\* entry.
C15_RotationDueKnownNamespace ==
    ret.op = "check_key_rotation_needed" =>
        (ret.val <=>
            /\ HasNamespace(user_data)
            /\ \/ NamespaceOf(user_data).current_keypair = None
               \/ DayOf(NamespaceOf(user_data).current_keypair.created_at)
                      # now.day)

\* A keypair created on day 1 is found due on day 2.
C15_Witness ==
    /\ ret.op = "check_key_rotation_needed"
    /\ ret.val
    /\ HasCurrent(user_data)
    /\ DayOf(NamespaceOf(user_data).current_keypair.created_at) = 1
    /\ now.day = 2

\* rotate_key has just returned for a record without an entry for the
\* namespace.
RotatedUnknownNamespace ==
    /\ pc = "menu"
    /\ ~HasNamespace(user_data)
    /\ ret'.op = "rotate_key"
    /\ now' = now

\* C20: rotate_key on a record without an entry for the namespace returns
\* False and leaves the identity keypair, every namespace entry, the
\* directory and the profile file as they were.
C20_UnknownNamespace ==
    [][RotatedUnknownNamespace =>
          /\ ret'.val = FALSE
          /\ ret'.printed = NoProfile
          /\ user_data' = user_data
          /\ directory' = directory
          /\ profile_file' = profile_file
          /\ keygen' = keygen]_vars

C20_Witness ==
    /\ ret.op = "rotate_key"
    /\ ret.printed = NoProfile
    /\ ~ret.val
    /\ ~HasNamespace(user_data)
    /\ user_data.db_profiles = <<>>
    /\ profile_file # NoFile

\* msg was exchanged between alice and partner.
Between(msg, partner) ==
    \/ msg.sender = "alice" /\ msg.recipient = partner
    \/ msg.sender = partner /\ msg.recipient = "alice"

\* The stored messages exchanged with partner.
ChatWith(partner) == SelectSeq(s_messages, LAMBDA msg : Between(msg, partner))

\* C19: get_chat_messages(partner, limit), limit >= 0, returns only stored
\* messages exchanged between the user and that partner, in non-decreasing
\* timestamp order, never more than limit of them, and the latest limit of
\* them when more exist.
C19_ChatHistoryQuery ==
    s_ret.op = "get_chat_messages" =>
        LET val == s_ret.val
            chat == ChatWith(s_ret.partner)
        IN  /\ \A i \in 1..Len(val) :
                   /\ Between(val[i], s_ret.partner)
                   /\ \E j \in 1..Len(s_messages) : s_messages[j] = val[i]
            /\ \A i \in 1..Len(val) - 1 :
                   ~StrLess(val[i + 1].timestamp, val[i].timestamp, 1)
            /\ Len(val) <= s_ret.limit
            /\ Len(val) = Min(s_ret.limit, Len(chat))
            /\ \A j \in 1..Len(chat) :
                   (\A i \in 1..Len(val) : val[i] # chat[j]) =>
                       \A i \in 1..Len(val) :
                           ~StrLess(val[i].timestamp, chat[j].timestamp, 1)


(***************************************************************************)
(* C21: the order in which receive_messages tries keys                     *)
(***************************************************************************)
\* The attempts of the running call on message number m, in the order made.
AttemptsOn(m) == SelectSeq(tried, LAMBDA a : a.msg = m)

\* The texts the attempts that opened produced, in the order made.
RECURSIVE OpenedMessages(_)
OpenedMessages(n) ==
    IF n = 0 THEN <<>>
    ELSE LET a == tried[n]
         IN  OpenedMessages(n - 1)
             \o (IF a.opened
                 THEN LET msg == r_encrypted_messages[a.msg]
                          opened == OpenMessage(a.private_key,
                                        Base64Decode(directory[msg.sender_username]),
                                        msg.ciphertext)
                      IN  <<DecryptedMessage(msg, opened.data)>>
                 ELSE <<>>)

\* C21: while a call of receive_messages runs, the attempts it has made on
\* each message start with the manager's current key; attempts with retired
\* keys follow only a failed first attempt and take the retired list from its
\* oldest entry, one key after the other; an attempt that opens is the last
\* one on its message, and its plaintext is what the call returns for it.
C21_FallbackOrder ==
    r_pc # "idle" =>
        /\ \A j \in 1..(Len(tried) - 1) : tried[j].msg <= tried[j + 1].msg
        /\ \A m \in 1..Len(r_encrypted_messages) :
              LET on == AttemptsOn(m)
              IN  on # <<>> =>
                    /\ on[1].current
                    /\ on[1].private_key = chat_identity_private_key
                    /\ Len(on) > 1 => ~on[1].opened
                    /\ \A k \in 2..Len(on) :
                          /\ ~on[k].current
                          /\ k - 1 <= Len(Retired(user_data))
                          /\ on[k].private_key =
                               Base64Decode(Retired(user_data)[k - 1].private_key)
                    /\ \A k \in 1..(Len(on) - 1) : ~on[k].opened
        /\ r_pc = "done" => r_decrypted_messages = OpenedMessages(Len(tried))

\* A call ended in which the current key and the oldest retired key failed on
\* a message and the second retired key opened it.
C21_Witness ==
    /\ r_pc = "done"
    /\ \E m \in 1..Len(r_encrypted_messages) :
          /\ Len(AttemptsOn(m)) = 3
          /\ AttemptsOn(m)[3].opened
          /\ r_decrypted_messages # <<>>

(***************************************************************************)
(* C22: the key the chat manager uses and the key the directory shows      *)
(***************************************************************************)
\* C22: whenever alice is at the menu or in a chat with a connected client
\* and the directory has a row for her, the public key in that row is the
\* public half of the identity private key her ChatManager seals and opens
\* with.
C22_PublishedMatchesInUse ==
    (pc \in {"menu", "chat"} /\ supabase /\ directory["alice"] # NoRow) =>
        directory["alice"] = Base64Encode(PublicKeyOf(chat_identity_private_key))

(***************************************************************************)
(* C27: a logged-in Application has a user record                          *)
(***************************************************************************)
\* C27: whenever is_logged_in is True (after login_or_register, at the menu
\* or in a chat), Application.user_data is a loaded record, not None.
C27_LoggedInHasUserData ==
    pc \in {"loggedin", "menu", "chat"} => AppUserData # None

(***************************************************************************)
(* C23: add_message and the history already in the storage file            *)
(***************************************************************************)
\* The messages a storage file holds: what it decrypts to under the password
\* it was written with (nothing when there is no file or it is damaged).
StoredIn(file) ==
    IF file # NoFile /\ \E password \in SessionPasswords :
                            decrypt_data(file[1], password).ok
    THEN LoadMessages(file, CHOOSE password \in SessionPasswords :
                                decrypt_data(file[1], password).ok)
    ELSE <<>>

\* The step is an add_message that returned True.
AddSucceeded ==
    /\ s_pc = "open" /\ s_pc' = "open"
    /\ s_messages' # s_messages
    /\ s_ret'.op = "add_message" /\ s_ret'.val

\* C23: after an add_message that reports success the storage file holds
\* every message it held before the call, followed by others ending with the
\* new one, whatever password the MessageStorage was built with.
C23_AddKeepsHistory ==
    [][AddSucceeded =>
          /\ IsPrefix(StoredIn(s_file), StoredIn(s_file'))
          /\ StoredIn(s_file') # <<>>
          /\ StoredIn(s_file')[Len(StoredIn(s_file'))] = s_messages'[Len(s_messages')]
      ]_vars

(***************************************************************************)
(* C24, C26: what get_new_messages stores and shows                        *)
(***************************************************************************)
\* How many times the text sealed in relay row i is in the storage as a
\* received message.
TimesStored(i) ==
    Cardinality({j \in 1..Len(s_messages) :
                    /\ s_messages[j].type = "received"
                    /\ s_messages[j].sender = relay[i].sender_username
                    /\ s_messages[j].content = sealed_log[i].text})

\* C24: each relay message from the chat partner is in the local storage at
\* most once, however often get_new_messages has run and however often the
\* chat with that partner has been entered.
C24_StoredAtMostOnce ==
    \A i \in 1..Len(relay) :
        (relay[i].sender_username = "bob" /\ relay[i].recipient_username = "alice")
            => TimesStored(i) <= 1

\* C26: when get_new_messages has returned, every message of the partner
\* that receive_messages decrypted for it has been handed over for display
\* in this chat and is in the storage.
C26_NothingDropped ==
    ret.op = "get_new_messages" =>
        \A k \in 1..Len(ret.received) :
            /\ \E j \in 1..Len(displayed_log) :
                  /\ displayed_log[j].sender = ret.received[k].sender_username
                  /\ displayed_log[j].content = ret.received[k].decrypted_content
            /\ \E j \in 1..Len(s_messages) :
                  /\ s_messages[j].type = "received"
                  /\ s_messages[j].sender = ret.received[k].sender_username
                  /\ s_messages[j].content = ret.received[k].decrypted_content

(***************************************************************************)
(* C25: two threads in add_message                                         *)
(***************************************************************************)
\* C25: once the poller's and the foreground thread's add_message have both
\* returned True, the storage file decrypts to exactly the in-memory list.
C25_NoLostUpdate ==
    (\A th \in Threads : t_pc[th] = "returned") =>
        LoadMessages(s_file, s_password) = s_messages

(***************************************************************************)
(* C28: what reaches the directory, the relay and the profile file         *)
(***************************************************************************)
\* sub occurs in s as a run of consecutive elements.
Contains(s, sub) ==
    \E k \in 0..(Len(s) - Len(sub)) : SubSeq(s, k + 1, k + Len(sub)) = sub

\* The private keys of the run and the passwords typed, as the strings a
\* collaborator would be handed.
SecretStrings ==
    {Base64Encode(PrivateKeyGenerate(k)) : k \in 1..keygen}
    \cup {Base64Encode(BobPrivateKey)}
    \cup SessionPasswords

C29_EncryptThenShred ==
    (cli_ret.op = "encrypt" /\ cli_ret.code = 0 /\ cli_ret.secure_delete) =>
        /\ fs[cli_ret.output] # NoFile
        /\ decrypt_data(fs[cli_ret.output][1], cli_ret.password)
               = Return(cli_ret.file_data)
====
